---- MODULE Spec2Model ----
(***************************************************************************)
(* Model of the per-agent coordination engine of gocart                    *)
(* (src/controller.go): the agent state machine, the border-move           *)
(* negotiation, the emergency-stop handshake and the retry scan, for a     *)
(* chain of agents joined by the delaying, lossy network simulator         *)
(* (src/network_simulator.go).                                             *)
(*                                                                         *)
(* Positions are fixed-point numbers in tenths of a plant unit, so that    *)
(* the overshoot 1.01 * safetyMargin = 30.3 is the integer 303.            *)
(* Wall-clock time is abstracted: time.Now().UnixNano() is a global        *)
(* strictly increasing counter, a retry deadline or the busy dwell may     *)
(* have elapsed at any tick, and a trajectory is in progress or finished.  *)
(***************************************************************************)
EXTENDS Integers, Sequences, FiniteSets, Bags, TLC

VARIABLES
    ctl,      \* ctl[i]: the Controller struct of agent i
    reqNet,   \* reqNet[i][s]: bag of Requests in flight to agent i from side s
    respNet,  \* respNet[i][s]: bag of Responses in flight to agent i from side s
    clock,    \* next value of time.Now().UnixNano()
    goals,    \* goals[i]: number of operator goals sent to agent i so far
    stops,    \* number of operator emergency stops injected so far
    retries,  \* number of retry scans that found a request to retry so far
    ev,       \* what the last handler did (history variable)
    yielded,  \* ids of the requests a receiver stopped its motion for and
              \* answered Wait (history variable)
    confirmed, \* the StopConfirms sent so far: the request id and the agent
              \* it was sent to (history variable)
    asked,     \* the EmergencyStop requests read so far: the request id
               \* and the agent that read it (history variable)
    answers,   \* the final answers given so far: the agent, the request it
               \* read and the Accept or Reject it sent back in the same step
               \* (history variable)
    rejected,  \* the Rejects acted on so far: the agent, the request id and
               \* whether the request was the agent's own or one it forwarded
               \* (history variable)
    sim,       \* one channel of the network simulator seen by itself: the
               \* messages on its input, in its sleeping goroutines, on its
               \* output and taken by the receiver
    web,       \* the goroutine that broadcasts the carts' data: where it is
               \* in collectCartData and what it has read so far
    life,      \* the event loops seen as goroutines: where each loop is, and
               \* how far stopAllControllers has come
    calc,      \* the input and the result of a function of the planner or
               \* of the PID seen by itself
    metrics    \* the MessageMetrics of one controller: its lock, its
               \* counters, and where the goroutine that reads it and the
               \* goroutine that writes it are

vars ==
    <<ctl, reqNet, respNet, clock, goals, stops, retries, ev, yielded, confirmed, asked,
                 answers, rejected, sim, web, life, calc, metrics>>

\* The controllers and their channels, and the parts seen by themselves.
core ==
    <<ctl, reqNet, respNet, clock, goals, stops, retries, ev, yielded, confirmed, asked,
      answers, rejected>>

aside == <<sim, web, life, calc, metrics>>

----------------------------------------------------------------------------
(* Bounds of the model *)

MaxClock == 5        \* timestamps drawn in one behaviour
MaxChainClock == 8   \* the same for a chain of three carts
MaxGoals == 2        \* operator goals injected in one behaviour
MaxStops == 1        \* operator emergency stops injected in one behaviour
MaxRetries == 1      \* retry scans that retry a request in one behaviour
MaxInFlight == 1     \* messages in flight on one channel
MaxMessages == 4     \* messages sent on the simulator's channel
MinDelay == 1        \* shortest delay of a message, in units of time
MaxDelay == 2        \* longest delay of a message, in units of time
ChannelSize == 10    \* make(chan Request, 10)

(* Program constants *)

safetyMargin == 300  \* Controller.safetyMargin = 30
OvershootNone == safetyMargin  \* the margin itself, without the 1 %
Overshoot == 303     \* 1.01 * safetyMargin
AnticipateOffset == 500  \* the 50 of the temporary goal of an incoming stop

Sides == {"Left", "Right"}
Opposite(side) == IF side = "Left" THEN "Right" ELSE "Left"

NoGoal == -1         \* nil *float64
NoId == -1           \* nil *int64
NoOrig == [none |-> TRUE]   \* nil OriginalRequest
NoConf == [none |-> TRUE]   \* nil *EmergencyStopConfirmation

----------------------------------------------------------------------------
(* Trajectories: the start and end positions and whether the motion is     *)
(* finished.  A motion in progress is reported at its start.               *)

GetStationaryTrajectory(p) ==
    [start |-> p, end |-> p, fin |-> TRUE, isStopping |-> FALSE]

\* A planner whose trajectory to the place the cart stands on still takes
\* time.
CalculatePointToPointTrajectoryInTime(p0, p1) ==
    [start |-> p0, end |-> p1, fin |-> FALSE, isStopping |-> FALSE]

CalculatePointToPointTrajectory(p0, p1) ==
    IF p0 = p1 THEN GetStationaryTrajectory(p0)
    ELSE [start |-> p0, end |-> p1, fin |-> FALSE, isStopping |-> FALSE]

GetCurrentPosition(tr) == IF tr.fin THEN tr.end ELSE tr.start

IsFinished(tr) == tr.fin

\* The trajectory once its last phase is over: every later reading of it
\* (position, IsFinished, a stop planned from it) is that of rest at its end.
Arrived(tr) == GetStationaryTrajectory(tr.end)

\* The stop from the current kinematic state.  A finished trajectory stays
\* where it is and a stopping trajectory runs through its remaining braking
\* phases to the end it already has.  A point-to-point motion in progress
\* stops either where it is now (late = FALSE) or, when it is already
\* decelerating, at its own end (late = TRUE).
CalculateStoppingTrajectory(tr, late) ==
    IF tr.fin THEN GetStationaryTrajectory(tr.end)
    ELSE IF tr.isStopping THEN tr
    ELSE IF late
         THEN [start |-> GetCurrentPosition(tr), end |-> tr.end,
               fin |-> FALSE, isStopping |-> TRUE]
    ELSE GetStationaryTrajectory(GetCurrentPosition(tr))

----------------------------------------------------------------------------
(* Maps keyed by request id *)

EmptyMap == [k \in {} |-> 0]
Put(f, k, v) == [j \in (DOMAIN f) \cup {k} |-> IF j = k THEN v ELSE f[j]]
Del(f, k) == [j \in (DOMAIN f) \ {k} |-> f[j]]

----------------------------------------------------------------------------
(* A handler runs on a context x: the controller c of agent x.i in a chain *)
(* of x.n agents, the messages it has sent so far (out), the completion    *)
(* signals it has put on GoalCompletionReport (rep), the clock (clk), the  *)
(* braking choice of the planner (late) and what it decided (note).        *)

HasNeighbor(x, side) == IF side = "Left" THEN x.i > 1 ELSE x.i < x.n

Send(x, kind, side, msg) ==
    [x EXCEPT !.out = Append(@, [kind |-> kind, side |-> side, msg |-> msg])]

Border(c, side) ==
    IF side = "Left" THEN c.LeftBorderTrajectory ELSE c.RightBorderTrajectory

SetBorder(x, side, tr) ==
    IF side = "Left" THEN [x EXCEPT !.c.LeftBorderTrajectory = tr]
    ELSE [x EXCEPT !.c.RightBorderTrajectory = tr]

\* updateTrajectory, originalTrajectory and outgoingResponse of the source
\* are all determined by the side the request came from.
acceptRequest(x, side, request) ==
    Send(SetBorder(x, side,
                   CalculatePointToPointTrajectory(
                       GetCurrentPosition(Border(x.c, side)),
                       request.ProposedBorderEnd)),
         "resp", side, [RequestId |-> request.RequestId, Type |-> "ACCEPT"])

rejectRequest(x, side, request) ==
    Send(x, "resp", side, [RequestId |-> request.RequestId, Type |-> "REJECT"])

postponeRequest(x, side, request) ==
    Send(x, "resp", side, [RequestId |-> request.RequestId, Type |-> "WAIT"])

acceptGoal(x, goal, goalTimestamp, acceptState) ==
    [x EXCEPT !.c.State = acceptState,
              !.c.GoalTimestamp = goalTimestamp,
              !.c.CurrentTrajectory =
                  CalculatePointToPointTrajectory(
                      GetCurrentPosition(x.c.CurrentTrajectory), goal)]

\* A rejection that signals nothing.
rejectGoalSilently(x) == [x EXCEPT !.c.State = "Idle"]

rejectGoal(x) == [x EXCEPT !.c.State = "Idle", !.rep = @ + 1]

\* A request made for a neighbour that gets an id of its own.
queueBorderMoveRequestFreshId(x, goal, goalTimestamp, acceptState, oldRequestId, orig) ==
    LET x1 == [x EXCEPT !.c.State = "Requesting"]
        trySendRequest(side, end) ==
            IF ~HasNeighbor(x1, side)
            THEN LET x2 == rejectGoal(x1)
                 IN  IF orig # NoOrig
                     THEN rejectRequest(x2, orig.side, orig.Request)
                     ELSE x2
            ELSE LET requestId ==
                         IF oldRequestId # NoId THEN oldRequestId
                         ELSE goalTimestamp
                     request == [RequestId |-> requestId,
                                 Type |-> "BORDER_MOVE",
                                 ProposedBorderEnd |-> end]
                     requestParameters == [Goal |-> goal,
                                           Request |-> request,
                                           AcceptState |-> acceptState,
                                           Orig |-> orig]
                 IN  Send([x1 EXCEPT !.c.PendingRequests =
                                         Put(@, requestId, requestParameters)],
                          "req", side, request)
    IN  IF x1.c.LeftBorderTrajectory.end + safetyMargin >= goal
        THEN trySendRequest("Left", goal - Overshoot)
        ELSE IF x1.c.RightBorderTrajectory.end - safetyMargin <= goal
        THEN trySendRequest("Right", goal + Overshoot)
        ELSE x1

queueBorderMoveRequest(x, goal, goalTimestamp, acceptState, oldRequestId, orig) ==
    LET x1 == [x EXCEPT !.c.State = "Requesting"]
        trySendRequest(side, end) ==
            IF ~HasNeighbor(x1, side)
            THEN LET x2 == rejectGoal(x1)
                 IN  IF orig # NoOrig
                     THEN rejectRequest(x2, orig.side, orig.Request)
                     ELSE x2
            ELSE LET requestId ==
                         IF oldRequestId # NoId THEN oldRequestId
                         ELSE IF orig # NoOrig THEN orig.Request.RequestId
                         ELSE goalTimestamp
                     request == [RequestId |-> requestId,
                                 Type |-> "BORDER_MOVE",
                                 ProposedBorderEnd |-> end]
                     requestParameters == [Goal |-> goal,
                                           Request |-> request,
                                           AcceptState |-> acceptState,
                                           Orig |-> orig]
                 IN  Send([x1 EXCEPT !.c.PendingRequests =
                                         Put(@, requestId, requestParameters)],
                          "req", side, request)
    IN  IF x1.c.LeftBorderTrajectory.end + safetyMargin >= goal
        THEN trySendRequest("Left", goal - Overshoot)
        ELSE IF x1.c.RightBorderTrajectory.end - safetyMargin <= goal
        THEN trySendRequest("Right", goal + Overshoot)
        ELSE x1

\* The comparison with the margins taken as inclusive.
GoalWithinBordersClosed(c, goal) ==
    /\ c.LeftBorderTrajectory.end + safetyMargin <= goal
    /\ goal <= c.RightBorderTrajectory.end - safetyMargin

GoalWithinBorders(c, goal) ==
    /\ c.LeftBorderTrajectory.end + safetyMargin < goal
    /\ goal < c.RightBorderTrajectory.end - safetyMargin

\* goalTimestamp := time.Now().UnixNano().  The clock of the model moves on
\* only when the value drawn is kept, as GoalTimestamp or as a request id:
\* a value that is dropped is compared with nothing later on.
handleGoalRequestWithOriginal(x, goal, acceptState, orig) ==
    LET goalTimestamp == x.clk
        x1 == [x EXCEPT !.clk = @ + 1]
        y == IF GoalWithinBorders(x1.c, goal)
             THEN acceptGoal(x1, goal, goalTimestamp, acceptState)
             ELSE queueBorderMoveRequest(x1, goal, goalTimestamp, acceptState,
                                         NoId, orig)
    IN  IF \/ y.c.GoalTimestamp = goalTimestamp
           \/ goalTimestamp \in DOMAIN y.c.PendingRequests
        THEN y
        ELSE [y EXCEPT !.clk = x.clk]

handleGoalRequest(x, goal, acceptState) ==
    handleGoalRequestWithOriginal(x, goal, acceptState, NoOrig)

----------------------------------------------------------------------------
(* Emergency stop *)

StopRequest(id) ==
    [RequestId |-> id, Type |-> "EMERGENCY_STOP", ProposedBorderEnd |-> 0]

StopParameters(id) ==
    [Goal |-> 0, Request |-> StopRequest(id), AcceptState |-> "Stopping",
     Orig |-> NoOrig]

\* A stop that leaves the map of pending requests as it is.
executeEmergencyStopKeepsPending(x) ==
    LET c == x.c
        x1 == [x EXCEPT !.c.State = "Stopping",
                        !.c.CurrentTrajectory =
                            CalculateStoppingTrajectory(c.CurrentTrajectory,
                                                        x.late.Cart),
                        !.stopped = TRUE]
        conf == c.PendingEmergencyStopConfirmation
    IN  IF conf # NoConf
        THEN [Send(x1, "resp", conf.side,
                   [RequestId |-> conf.RequestId, Type |-> "STOP_CONFIRM"])
                 EXCEPT !.c.PendingEmergencyStopConfirmation = NoConf]
        ELSE x1

executeEmergencyStop(x) ==
    LET c == x.c
        hypotheticalStopTrajectory ==
            CalculateStoppingTrajectory(c.CurrentTrajectory, x.late.Cart)
        finalStopPosition == hypotheticalStopTrajectory.end
        violatesLeftBorder ==
            finalStopPosition < c.LeftBorderTrajectory.end + safetyMargin
        violatesRightBorder ==
            finalStopPosition > c.RightBorderTrajectory.end - safetyMargin
        conf == c.PendingEmergencyStopConfirmation
        neighborStoppingLeft == conf # NoConf /\ conf.side = "Left"
        neighborStoppingRight == conf # NoConf /\ conf.side = "Right"
        x1 == [x EXCEPT !.c.State = "Stopping",
                        !.c.CurrentTrajectory = hypotheticalStopTrajectory]
        x2 == IF (violatesLeftBorder \/ neighborStoppingLeft)
                 /\ ~IsFinished(c.LeftBorderTrajectory)
              THEN [x1 EXCEPT !.c.LeftBorderTrajectory =
                       CalculateStoppingTrajectory(c.LeftBorderTrajectory, x.late.Left)]
              ELSE x1
        x3 == IF (violatesRightBorder \/ neighborStoppingRight)
                 /\ ~IsFinished(c.RightBorderTrajectory)
              THEN [x2 EXCEPT !.c.RightBorderTrajectory =
                       CalculateStoppingTrajectory(c.RightBorderTrajectory, x.late.Right)]
              ELSE x2
        keep == {id \in DOMAIN c.PendingRequests :
                     c.PendingRequests[id].Request.Type = "EMERGENCY_STOP"}
        x4 == [x3 EXCEPT !.c.PendingRequests = [id \in keep |-> c.PendingRequests[id]],
                         !.stopped = TRUE]
    IN  IF conf # NoConf
        THEN [Send(x4, "resp", conf.side,
                   [RequestId |-> conf.RequestId, Type |-> "STOP_CONFIRM"])
                 EXCEPT !.c.PendingEmergencyStopConfirmation = NoConf]
        ELSE x4

sendEmergencyStopRequestsAndWait(x) ==
    LET c == x.c
        finalStopPosition ==
            CalculateStoppingTrajectory(c.CurrentTrajectory, x.late.Cart).end
        leftBorderEnd == c.LeftBorderTrajectory.end
        rightBorderEnd == c.RightBorderTrajectory.end
        violatesLeftBorder == finalStopPosition < leftBorderEnd + safetyMargin
        violatesRightBorder == finalStopPosition > rightBorderEnd - safetyMargin
        goal == c.pendingGoalAfterStop
        pendingGoalRequiresLeftExpansion ==
            goal # NoGoal /\ leftBorderEnd + safetyMargin >= goal
        pendingGoalRequiresRightExpansion ==
            goal # NoGoal /\ rightBorderEnd - safetyMargin <= goal
        askLeft == (violatesLeftBorder \/ pendingGoalRequiresLeftExpansion)
                       /\ HasNeighbor(x, "Left")
        askRight == (violatesRightBorder \/ pendingGoalRequiresRightExpansion)
                       /\ HasNeighbor(x, "Right")
        x0 == [x EXCEPT !.stopAsked = TRUE]
        x1 == IF askLeft
              THEN Send([x0 EXCEPT !.c.PendingRequests =
                                       Put(@, x.clk, StopParameters(x.clk)),
                                   !.clk = @ + 1],
                        "req", "Left", StopRequest(x.clk))
              ELSE x0
        x2 == IF askRight
              THEN Send([x1 EXCEPT !.c.PendingRequests =
                                       Put(@, x1.clk, StopParameters(x1.clk)),
                                   !.clk = @ + 1],
                        "req", "Right", StopRequest(x1.clk))
              ELSE x1
    IN  IF askLeft \/ askRight
        THEN [x2 EXCEPT !.c.State = "Requesting"]
        ELSE executeEmergencyStop(x2)

handleEmergencyStop(x) == sendEmergencyStopRequestsAndWait(x)

handleGoalRequestDuringMovement(x, goal) ==
    handleEmergencyStop([x EXCEPT !.c.pendingGoalAfterStop = goal])

----------------------------------------------------------------------------
(* Responses to our own requests *)

handleAcceptResponse(x, requestParams, side) ==
    LET x1 == SetBorder(x, side,
                  CalculatePointToPointTrajectory(
                      GetCurrentPosition(Border(x.c, side)),
                      requestParams.Request.ProposedBorderEnd))
        x2 == acceptGoal(x1, requestParams.Goal, requestParams.Request.RequestId,
                         requestParams.AcceptState)
    IN  IF requestParams.Orig # NoOrig
        THEN acceptRequest(x2, requestParams.Orig.side, requestParams.Orig.Request)
        ELSE x2

\* A Reject that is kept to oneself.
handleRejectResponseLocal(x, requestParams) == rejectGoal(x)

handleRejectResponse(x, requestParams) ==
    LET x1 == rejectGoal(x)
    IN  IF requestParams.Orig # NoOrig
        THEN rejectRequest(x1, requestParams.Orig.side, requestParams.Orig.Request)
        ELSE x1

\* The entry is not put back, so nothing is left to retry.
handleWaitResponseForgets(x, requestParams) == x

handleWaitResponse(x, requestParams) ==
    LET x1 == [x EXCEPT !.c.PendingRequests =
                            Put(@, requestParams.Request.RequestId, requestParams)]
    IN  IF requestParams.Orig # NoOrig
        THEN postponeRequest(x1, requestParams.Orig.side, requestParams.Orig.Request)
        ELSE x1

handleStopConfirmResponse(x) == executeEmergencyStop(x)

\* The response is processed whatever the state is.
handleResponseInAnyState(x, response, side) ==
    IF response.RequestId \notin DOMAIN x.c.PendingRequests THEN x
    ELSE LET requestParams == x.c.PendingRequests[response.RequestId]
             x1 == [x EXCEPT !.c.PendingRequests = Del(@, response.RequestId),
                             !.matched = TRUE]
         IN  CASE response.Type = "ACCEPT" -> handleAcceptResponse(x1, requestParams, side)
               [] response.Type = "REJECT" -> handleRejectResponse(x1, requestParams)
               [] response.Type = "WAIT" -> handleWaitResponse(x1, requestParams)
               [] response.Type = "STOP_CONFIRM" -> handleStopConfirmResponse(x1)
               [] OTHER -> x1

handleResponse(x, response, side) ==
    IF x.c.State # "Requesting" THEN x
    ELSE IF response.RequestId \notin DOMAIN x.c.PendingRequests THEN x
    ELSE LET requestParams == x.c.PendingRequests[response.RequestId]
             x1 == [x EXCEPT !.c.PendingRequests = Del(@, response.RequestId),
                             !.matched = TRUE]
         IN  CASE response.Type = "ACCEPT" -> handleAcceptResponse(x1, requestParams, side)
               [] response.Type = "REJECT" -> handleRejectResponse(x1, requestParams)
               [] response.Type = "WAIT" -> handleWaitResponse(x1, requestParams)
               [] response.Type = "STOP_CONFIRM" -> handleStopConfirmResponse(x1)
               [] OTHER -> x1

----------------------------------------------------------------------------
(* Requests from a neighbour *)

\* The receiver never gives way.
tryToGiveWayNever(x, request, side) == postponeRequest(x, side, request)

\* The receiver gives way whatever its state is.
tryToGiveWayInAnyState(x, request, side) ==
    LET avoidanceGoal == IF side = "Left"
                         THEN request.ProposedBorderEnd + Overshoot
                         ELSE request.ProposedBorderEnd - Overshoot
    IN  IF GoalWithinBorders(x.c, avoidanceGoal)
        THEN acceptRequest(handleGoalRequest(x, avoidanceGoal, "Avoiding"),
                           side, request)
        ELSE handleGoalRequestWithOriginal(x, avoidanceGoal, "Avoiding",
                 [Request |-> request, side |-> side])

tryToGiveWay(x, request, side) ==
    LET avoidanceGoal == IF side = "Left"
                         THEN request.ProposedBorderEnd + Overshoot
                         ELSE request.ProposedBorderEnd - Overshoot
        canAvoidImmediately == GoalWithinBorders(x.c, avoidanceGoal)
    IN  IF x.c.State \in {"Idle", "Requesting"}
        THEN IF canAvoidImmediately
             THEN acceptRequest(handleGoalRequest(x, avoidanceGoal, "Avoiding"),
                                side, request)
             ELSE handleGoalRequestWithOriginal(x, avoidanceGoal, "Avoiding",
                      [Request |-> request, side |-> side])
        ELSE postponeRequest(x, side, request)

\* The border given up without looking at where the cart is going.
handleBorderMoveUnchecked(x, acceptImmediately, request, side) ==
    acceptRequest(x, side, request)

handleBorderMove(x, acceptImmediately, request, side) ==
    IF acceptImmediately
    THEN acceptRequest(x, side, request)
    ELSE tryToGiveWay(x, request, side)

\* The pending border-move requests that expand toward the side the
\* incoming request comes from.
ConflictingPending(c, side) ==
    {id \in DOMAIN c.PendingRequests :
        /\ c.PendingRequests[id].Request.Type = "BORDER_MOVE"
        /\ IF side = "Left"
           THEN c.LeftBorderTrajectory.end + safetyMargin >= c.PendingRequests[id].Goal
           ELSE c.RightBorderTrajectory.end - safetyMargin <= c.PendingRequests[id].Goal}

\* The conflict of the incoming request with our own motion.
ConflictsWithMotion(c, request, side) ==
    /\ c.State \in {"Moving", "Avoiding"}
    /\ IF side = "Left"
       THEN c.CurrentTrajectory.end - safetyMargin < request.ProposedBorderEnd
       ELSE c.CurrentTrajectory.end + safetyMargin > request.ProposedBorderEnd

\* The tie-break turned round: the smaller id wins.
DefersToSmaller(requestId, ourId) == requestId < ourId

\* The tie-break: the incoming request wins iff its id is the larger.
Defers(requestId, ourId) == requestId > ourId

\* What a request that conflicts with us and loses the tie is answered.
respondToLoser(x, side, request) ==
    IF side = "Left"
    THEN rejectRequest(x, side, request)
    ELSE postponeRequest(x, side, request)

\* pick is the first conflicting entry the iteration over the
\* PendingRequests map comes across (NoId when there is none).
handleIncomingBorderMoveRequest(x, request, side, pick) ==
    LET c == x.c
        motion == ConflictsWithMotion(c, request, side)
        hasConflictingRequest == pick # NoId \/ motion
        shouldDeferToNeighbor ==
            IF motion THEN Defers(request.RequestId, c.GoalTimestamp)
            ELSE IF pick # NoId
            THEN Defers(request.RequestId, c.PendingRequests[pick].Request.RequestId)
            ELSE FALSE
        beyond == IF side = "Left"
                  THEN request.ProposedBorderEnd < c.CurrentTrajectory.end - safetyMargin
                  ELSE request.ProposedBorderEnd > c.CurrentTrajectory.end + safetyMargin
        acceptImmediately ==
            beyond /\ (~hasConflictingRequest \/ shouldDeferToNeighbor)
        x1 == [x EXCEPT !.conflict = hasConflictingRequest,
                        !.defer = shouldDeferToNeighbor,
                        !.motion = motion]
    IN  IF hasConflictingRequest /\ shouldDeferToNeighbor
           /\ c.State \in {"Moving", "Avoiding"}
        THEN postponeRequest(handleEmergencyStop(x1), side, request)
        ELSE IF hasConflictingRequest /\ ~shouldDeferToNeighbor
        THEN respondToLoser(x1, side, request)
        ELSE handleBorderMove(x1, acceptImmediately, request, side)

handleIncomingEmergencyStopRequest(x, request, side) ==
    LET x1 == [x EXCEPT !.c.PendingEmergencyStopConfirmation =
                            [RequestId |-> request.RequestId, side |-> side]]
        tempGoal == IF side = "Left"
                    THEN x.c.RightBorderTrajectory.end + safetyMargin + AnticipateOffset
                    ELSE x.c.LeftBorderTrajectory.end - safetyMargin - AnticipateOffset
        x2 == handleEmergencyStop([x1 EXCEPT !.c.pendingGoalAfterStop = tempGoal])
    IN  [x2 EXCEPT !.c.pendingGoalAfterStop = NoGoal]

handleIncomingRequest(x, request, side, pick) ==
    CASE request.Type = "BORDER_MOVE" ->
             handleIncomingBorderMoveRequest(x, request, side, pick)
      [] request.Type = "EMERGENCY_STOP" ->
             handleIncomingEmergencyStopRequest(x, request, side)
      [] OTHER -> x

----------------------------------------------------------------------------
(* The retry scan.  order lists the ids of the pending entries whose retry *)
(* time is past, in the order the iteration over the map visits them.      *)

\* A retry scan that sends nothing again.
retryPendingRequestsNever(x, order) == x

\* A retry scan that also sends again the requests made for a neighbour.
RECURSIVE retryPendingRequestsAll(_, _)
retryPendingRequestsAll(x, order) ==
    IF order = << >> THEN x
    ELSE LET requestId == Head(order)
             pendingRequest == x.c.PendingRequests[requestId]
         IN  IF requestId \notin DOMAIN x.c.PendingRequests
             THEN retryPendingRequestsAll(x, Tail(order))
             ELSE IF pendingRequest.Request.Type = "EMERGENCY_STOP"
             THEN sendEmergencyStopRequestsAndWait(
                      [x EXCEPT !.c.PendingRequests = Del(@, requestId)])
             ELSE retryPendingRequestsAll(
                      queueBorderMoveRequest(
                          [x EXCEPT !.c.PendingRequests = Del(@, requestId),
                                    !.retried = @ \cup {requestId}],
                          pendingRequest.Goal,
                          pendingRequest.Request.RequestId,
                          pendingRequest.AcceptState,
                          requestId,
                          pendingRequest.Orig),
                      Tail(order))

RECURSIVE retryPendingRequests(_, _)
retryPendingRequests(x, order) ==
    IF order = << >> THEN x
    ELSE LET requestId == Head(order)
             pendingRequest == x.c.PendingRequests[requestId]
         IN  IF requestId \notin DOMAIN x.c.PendingRequests
             THEN retryPendingRequests(x, Tail(order))
             ELSE IF pendingRequest.Orig # NoOrig
             THEN retryPendingRequests(x, Tail(order))
             ELSE IF pendingRequest.Request.Type = "EMERGENCY_STOP"
             THEN sendEmergencyStopRequestsAndWait(
                      [x EXCEPT !.c.PendingRequests = Del(@, requestId)])
             ELSE retryPendingRequests(
                      queueBorderMoveRequest(
                          [x EXCEPT !.c.PendingRequests = Del(@, requestId),
                                    !.retried = @ \cup {requestId}],
                          pendingRequest.Goal,
                          pendingRequest.Request.RequestId,
                          pendingRequest.AcceptState,
                          requestId,
                          pendingRequest.Orig),
                      Tail(order))

----------------------------------------------------------------------------
(* The system: a chain of agents and the channels between them *)

Agents == DOMAIN ctl

Neighbor(i, side) == IF side = "Left" THEN i - 1 ELSE i + 1

NoRequest == [RequestId |-> NoId, Type |-> "NONE", ProposedBorderEnd |-> 0]
NoResponse == [RequestId |-> NoId, Type |-> "NONE"]

Quiet ==
    [agent |-> 0, op |-> "none", side |-> "None", goal |-> NoGoal,
     req |-> NoRequest, resp |-> NoResponse, was |-> "None",
     out |-> << >>, rep |-> 0,
     conflict |-> FALSE, defer |-> FALSE, motion |-> FALSE,
     stopped |-> FALSE, stopAsked |-> FALSE, matched |-> FALSE,
     retried |-> {}]

\* The context in which agent i starts a handler.
Ctx(i, late) ==
    [c |-> ctl[i], i |-> i, n |-> Cardinality(Agents), clk |-> clock,
     late |-> late, out |-> << >>, rep |-> 0,
     conflict |-> FALSE, defer |-> FALSE, motion |-> FALSE,
     stopped |-> FALSE, stopAsked |-> FALSE, matched |-> FALSE,
     retried |-> {}]

\* The braking choices open to the planner of agent i now: one for each
\* of its three trajectories, which were planned at different times.
NoBraking == [Cart |-> FALSE, Left |-> FALSE, Right |-> FALSE]

Braking(tr) == IF tr.fin \/ tr.isStopping THEN {FALSE} ELSE BOOLEAN

\* The cart and the borders of one controller are planned by the same
\* MovementPlanner, with the same limits, so their braking phases are
\* ordered as their arrivals are.  When the cart is already decelerating
\* into its end, a border still between the cart's end and the cart has
\* arrived or runs into its end as well; when a border that closes in on the
\* cart is decelerating into its end, the cart has left that place or runs
\* into its own end.
RunsOut(tr, late) == tr.fin \/ tr.isStopping \/ late

Decelerating(tr, late) == ~tr.fin /\ (tr.isStopping \/ late)

BrakingAgrees(c, late) ==
    /\ Decelerating(c.CurrentTrajectory, late.Cart) =>
         /\ \/ RunsOut(c.LeftBorderTrajectory, late.Left)
            \/ c.CurrentTrajectory.end
                   >= GetCurrentPosition(c.LeftBorderTrajectory) + safetyMargin
         /\ \/ RunsOut(c.RightBorderTrajectory, late.Right)
            \/ c.CurrentTrajectory.end
                   <= GetCurrentPosition(c.RightBorderTrajectory) - safetyMargin
    /\ Decelerating(c.LeftBorderTrajectory, late.Left) =>
         \/ RunsOut(c.CurrentTrajectory, late.Cart)
         \/ GetCurrentPosition(c.CurrentTrajectory)
                >= c.LeftBorderTrajectory.end + safetyMargin
    /\ Decelerating(c.RightBorderTrajectory, late.Right) =>
         \/ RunsOut(c.CurrentTrajectory, late.Cart)
         \/ GetCurrentPosition(c.CurrentTrajectory)
                <= c.RightBorderTrajectory.end - safetyMargin

Brakings(i) ==
    {late \in [Cart : Braking(ctl[i].CurrentTrajectory),
               Left : Braking(ctl[i].LeftBorderTrajectory),
               Right : Braking(ctl[i].RightBorderTrajectory)] :
         BrakingAgrees(ctl[i], late)}

\* The messages of kind k of out, put on the channels they were sent on.
RECURSIVE Post(_, _, _, _)
Post(net, i, out, k) ==
    IF out = << >> THEN net
    ELSE LET m == Head(out)
         IN  IF m.kind = k
             THEN Post([net EXCEPT ![Neighbor(i, m.side)][Opposite(m.side)] =
                                       @ (+) SetToBag({m.msg})],
                       i, Tail(out), k)
             ELSE Post(net, i, Tail(out), k)

WithinCapacity(net) ==
    \A j \in DOMAIN net : \A s \in Sides : BagCardinality(net[j][s]) <= MaxInFlight

\* The handler's result y becomes the new state.
Commit(x, rq, rs, e) ==
    \E y \in {x} :
        /\ y.clk <= (IF y.n > 2 THEN MaxChainClock ELSE MaxClock) + 1
        /\ ctl' = [ctl EXCEPT ![y.i] = y.c]
        /\ reqNet' = Post(rq, y.i, y.out, "req")
        /\ respNet' = Post(rs, y.i, y.out, "resp")
        /\ WithinCapacity(reqNet')
        /\ WithinCapacity(respNet')
        /\ clock' = y.clk
        /\ ev' = [e EXCEPT !.agent = y.i, !.was = ctl[y.i].State,
                           !.out = y.out, !.rep = y.rep,
                           !.conflict = y.conflict, !.defer = y.defer,
                           !.motion = y.motion, !.stopped = y.stopped,
                           !.stopAsked = y.stopAsked, !.matched = y.matched,
                           !.retried = y.retried]
        /\ yielded' = IF /\ e.op = "request" /\ e.req.Type = "BORDER_MOVE"
                         /\ y.conflict /\ y.defer /\ y.stopAsked
                      THEN yielded \cup {e.req.RequestId}
                      ELSE yielded
        /\ asked' = IF e.op = "request" /\ e.req.Type = "EMERGENCY_STOP"
                    THEN asked \cup {[id |-> e.req.RequestId, by |-> y.i]}
                    ELSE asked
        /\ answers' = IF e.op = "request"
                      THEN answers \cup
                           {[by |-> y.i, req |-> e.req, side |-> e.side,
                             type |-> y.out[k].msg.Type] : k \in
                               {j \in DOMAIN y.out :
                                   /\ y.out[j].kind = "resp"
                                   /\ y.out[j].side = e.side
                                   /\ y.out[j].msg.RequestId = e.req.RequestId
                                   /\ y.out[j].msg.Type \in {"ACCEPT", "REJECT"}}}
                      ELSE answers
        /\ rejected' = IF e.op = "response" /\ e.resp.Type = "REJECT" /\ y.matched
                      THEN rejected \cup
                           {[by |-> y.i, id |-> e.resp.RequestId,
                             own |-> ctl[y.i].PendingRequests[e.resp.RequestId].Orig
                                         = NoOrig]}
                      ELSE rejected
        /\ UNCHANGED aside
        /\ confirmed' = confirmed \cup
               {[id |-> y.out[k].msg.RequestId,
                 to |-> Neighbor(y.i, y.out[k].side)] : k \in
                    {j \in DOMAIN y.out : /\ y.out[j].kind = "resp"
                                         /\ y.out[j].msg.Type = "STOP_CONFIRM"}}

NewController(position, leftBorder, rightBorder) ==
    [State |-> "Idle",
     LeftBorderTrajectory |-> GetStationaryTrajectory(leftBorder),
     RightBorderTrajectory |-> GetStationaryTrajectory(rightBorder),
     CurrentTrajectory |-> GetStationaryTrajectory(position),
     GoalTimestamp |-> 0,
     PendingRequests |-> EmptyMap,
     PendingEmergencyStopConfirmation |-> NoConf,
     pendingGoalAfterStop |-> NoGoal]

\* resetCartsWithCount(2): two carts at 400 and 1200 in [50, 800], [800, 1550]
TwoCarts ==
    <<NewController(4000, 500, 8000), NewController(12000, 8000, 15500)>>

\* The goals the scenarios send to the first and to the second cart: inside
\* the borders (700), on the margin of the border (770) and across it.
GoalsOf == <<{7000, 7700, 11000}, {5000, 11000}>>

\* resetCartsWithCount(3): three carts at 300, 800 and 1300 in [25, 533],
\* [533, 1066], [1066, 1575]
ThreeCarts ==
    <<NewController(3000, 250, 5330), NewController(8000, 5330, 10660),
      NewController(13000, 10660, 15750)>>

\* The channel of the simulator before anything is sent: messages are
\* numbered in the order the sender sends them.
SimStart ==
    [sent |-> 0, input |-> << >>, asleep |-> {}, output |-> << >>, got |-> << >>]

\* The broadcasting goroutine between two rounds, having read nothing.
WebStart == [pc |-> "idle", agent |-> 0, snap |-> << >>, reads |-> {}]

\* Every event loop blocked in its select, stopAllControllers not called.
LifeStart == [pc |-> [i \in 1..3 |-> "select"], next |-> 0]

\* No function is being computed.
NoCalc == [kind |-> "none"]

\* NewMessageMetrics: the lock free, nothing counted, nobody in a call.
MetricsStart ==
    [readers |-> 0, writer |-> "none", reader |-> "idle", call |-> "none",
     requestId |-> 0, pendingMessages |-> {}, messageCount |-> 0,
     scenarioMessageCount |-> 0, reports |-> 0]

AsideStart ==
    /\ sim = SimStart
    /\ web = WebStart
    /\ life = LifeStart
    /\ calc = NoCalc
    /\ metrics = MetricsStart

\* The controllers just created and connected, nothing sent yet.
Start(carts) ==
    /\ ctl = carts
    /\ reqNet = [i \in DOMAIN carts |-> [s \in Sides |-> EmptyBag]]
    /\ respNet = [i \in DOMAIN carts |-> [s \in Sides |-> EmptyBag]]
    /\ clock = 1
    /\ goals = [i \in DOMAIN carts |-> 0]
    /\ stops = 0
    /\ retries = 0
    /\ ev = Quiet
    /\ yielded = {}
    /\ confirmed = {}
    /\ asked = {}
    /\ answers = {}
    /\ rejected = {}
    /\ AsideStart

Init ==
    /\ ctl = TwoCarts
    /\ reqNet = [i \in 1..2 |-> [s \in Sides |-> EmptyBag]]
    /\ respNet = [i \in 1..2 |-> [s \in Sides |-> EmptyBag]]
    /\ clock = 1
    /\ goals = [i \in 1..2 |-> 0]
    /\ stops = 0
    /\ retries = 0
    /\ ev = Quiet
    /\ yielded = {}
    /\ confirmed = {}
    /\ asked = {}
    /\ answers = {}
    /\ rejected = {}
    /\ AsideStart

----------------------------------------------------------------------------
(* run_controller: one action per case of the select *)

\* The number of goals the operator has sent so far.
RECURSIVE SumUpTo(_, _)
SumUpTo(f, n) == IF n = 0 THEN 0 ELSE f[n] + SumUpTo(f, n - 1)

GoalsSent == SumUpTo(goals, Cardinality(Agents))

\* A goal intake that takes a goal in Busy as it does in Idle.
GoalIntakeInBusy(i, goal, late) ==
    /\ goals' = [goals EXCEPT ![i] = @ + 1]
    /\ UNCHANGED <<stops, retries>>
    /\ LET x == Ctx(i, late)
           y == CASE x.c.State \in {"Idle", "Requesting", "Busy"} ->
                         handleGoalRequest(x, goal, "Moving")
                  [] OTHER -> handleGoalRequestDuringMovement(x, goal)
       IN  Commit(y, reqNet, respNet, [Quiet EXCEPT !.op = "goal", !.goal = goal])

\* case goal := <-c.IncomingGoalRequest
GoalIntake(i, goal, late) ==
    /\ goals' = [goals EXCEPT ![i] = @ + 1]
    /\ UNCHANGED <<stops, retries>>
    /\ LET x == Ctx(i, late)
           y == CASE x.c.State \in {"Idle", "Requesting"} ->
                         handleGoalRequest(x, goal, "Moving")
                  [] x.c.State \in {"Moving", "Avoiding", "Stopping"} ->
                         handleGoalRequestDuringMovement(x, goal)
                  [] OTHER -> x
       IN  Commit(y, reqNet, respNet, [Quiet EXCEPT !.op = "goal", !.goal = goal])

GoalRequest(i, goal, late) == GoalsSent < MaxGoals /\ GoalIntake(i, goal, late)

\* case <-c.IncomingEmergencyStop
EmergencyStopSignal(i, late) ==
    /\ stops < MaxStops
    /\ stops' = stops + 1
    /\ UNCHANGED <<goals, retries>>
    /\ Commit(handleEmergencyStop(Ctx(i, late)), reqNet, respNet,
              [Quiet EXCEPT !.op = "stop"])

\* case request := <-c.IncomingLeftRequest / IncomingRightRequest
RequestDelivery(i, side, request, pick, late) ==
    /\ BagIn(request, reqNet[i][side])
    /\ IF request.Type = "BORDER_MOVE" /\ ConflictingPending(ctl[i], side) # {}
       THEN pick \in ConflictingPending(ctl[i], side)
       ELSE pick = NoId
    /\ UNCHANGED <<goals, stops, retries>>
    /\ Commit(handleIncomingRequest(Ctx(i, late), request, side, pick),
              [reqNet EXCEPT ![i][side] = @ (-) SetToBag({request})], respNet,
              [Quiet EXCEPT !.op = "request", !.side = side, !.req = request])

\* case response := <-c.IncomingLeftResponse / IncomingRightResponse
ResponseDelivery(i, side, response, late) ==
    /\ BagIn(response, respNet[i][side])
    /\ UNCHANGED <<goals, stops, retries>>
    /\ Commit(handleResponse(Ctx(i, late), response, side),
              reqNet, [respNet EXCEPT ![i][side] = @ (-) SetToBag({response})],
              [Quiet EXCEPT !.op = "response", !.side = side, !.resp = response])

\* The sequences without repetition of elements of S
Orders(S) ==
    UNION {{f \in [1..k -> S] : \A a, b \in 1..k : a # b => f[a] # f[b]} :
               k \in 1..Cardinality(S)}

\* case <-ticker.C, when the state machine has something to do
TickBusy(i) ==
    /\ ctl[i].State = "Busy"
    /\ UNCHANGED <<goals, stops, retries>>
    /\ Commit([Ctx(i, NoBraking) EXCEPT !.c.State = "Idle", !.rep = 1],
              reqNet, respNet, [Quiet EXCEPT !.op = "tick"])

TickMoving(i) ==
    /\ ctl[i].State = "Moving"
    /\ IsFinished(ctl[i].CurrentTrajectory)
    /\ UNCHANGED <<goals, stops, retries>>
    /\ Commit([Ctx(i, NoBraking) EXCEPT !.c.State = "Busy"],
              reqNet, respNet, [Quiet EXCEPT !.op = "tick"])

TickAvoiding(i) ==
    /\ ctl[i].State = "Avoiding"
    /\ IsFinished(ctl[i].CurrentTrajectory)
    /\ UNCHANGED <<goals, stops, retries>>
    /\ Commit([Ctx(i, NoBraking) EXCEPT !.c.State = "Idle", !.rep = 1],
              reqNet, respNet, [Quiet EXCEPT !.op = "tick"])

\* The retry scan finds the entries of order due.
RetryScan(i, order, late) ==
    /\ ctl[i].State \in {"Requesting", "Idle"}
    /\ order \in Orders(DOMAIN ctl[i].PendingRequests)
    /\ UNCHANGED <<goals, stops>>
    /\ Commit(retryPendingRequests(Ctx(i, late), order),
              reqNet, respNet, [Quiet EXCEPT !.op = "retry"])

TickRetry(i, order, late) ==
    /\ retries < MaxRetries
    /\ retries' = retries + 1
    /\ RetryScan(i, order, late)

TickStopping(i) ==
    /\ ctl[i].State = "Stopping"
    /\ IsFinished(ctl[i].CurrentTrajectory)
    /\ UNCHANGED <<goals, stops, retries>>
    /\ LET x == Ctx(i, NoBraking)
           goal == x.c.pendingGoalAfterStop
       IN  Commit(IF goal # NoGoal
                  THEN handleGoalRequest([x EXCEPT !.c.pendingGoalAfterStop = NoGoal],
                                         goal, "Moving")
                  ELSE [x EXCEPT !.c.State = "Idle", !.rep = 1],
                  reqNet, respNet,
                  [Quiet EXCEPT !.op = "stopped", !.goal = goal])

----------------------------------------------------------------------------
(* The environment: time and the network *)

\* The cart and the borders of one controller are planned by the same
\* MovementPlanner, with the same limits.  A border that is still travelling
\* towards the place the cart is going to was commanded together with the
\* cart and travels no further than it, so it arrives first.
BorderLeads(c) ==
    /\ \/ IsFinished(c.LeftBorderTrajectory)
       \/ c.CurrentTrajectory.end
              >= GetCurrentPosition(c.LeftBorderTrajectory) + safetyMargin
    /\ \/ IsFinished(c.RightBorderTrajectory)
       \/ c.CurrentTrajectory.end
              <= GetCurrentPosition(c.RightBorderTrajectory) - safetyMargin

\* Time passes: the cart of agent i reaches the end of its trajectory.
CartProgress(i) ==
    /\ ~IsFinished(ctl[i].CurrentTrajectory)
    /\ BorderLeads(ctl[i])
    /\ ctl' = [ctl EXCEPT ![i].CurrentTrajectory = Arrived(@)]
    /\ ev' = Quiet
    /\ UNCHANGED <<reqNet, respNet, clock, goals, stops, retries, yielded, confirmed, asked,
                 answers, rejected, aside>>

\* Conversely a border that closes in on the cart was commanded no earlier
\* than the cart's own motion away from it and travels at least as far, so it
\* arrives after the cart has cleared the place where the border ends.
CartLeads(c, side) ==
    \/ IsFinished(c.CurrentTrajectory)
    \/ IF side = "Left"
       THEN GetCurrentPosition(c.CurrentTrajectory)
                >= c.LeftBorderTrajectory.end + safetyMargin
       ELSE GetCurrentPosition(c.CurrentTrajectory)
                <= c.RightBorderTrajectory.end - safetyMargin

\* Time passes: a border of agent i completes its motion.
BorderProgress(i, side) ==
    /\ ~IsFinished(Border(ctl[i], side))
    /\ CartLeads(ctl[i], side)
    /\ ctl' = IF side = "Left"
              THEN [ctl EXCEPT ![i].LeftBorderTrajectory = Arrived(@)]
              ELSE [ctl EXCEPT ![i].RightBorderTrajectory = Arrived(@)]
    /\ ev' = Quiet
    /\ UNCHANGED <<reqNet, respNet, clock, goals, stops, retries, yielded, confirmed, asked,
                 answers, rejected, aside>>

\* relayRequests / relayResponses drop a message (simulated loss, or the
\* receiver's channel is full).
RequestLoss(i, side, request) ==
    /\ BagIn(request, reqNet[i][side])
    /\ reqNet' = [reqNet EXCEPT ![i][side] = @ (-) SetToBag({request})]
    /\ ev' = Quiet
    /\ UNCHANGED <<ctl, respNet, clock, goals, stops, retries, yielded, confirmed, asked,
                 answers, rejected, aside>>

ResponseLoss(i, side, response) ==
    /\ BagIn(response, respNet[i][side])
    /\ respNet' = [respNet EXCEPT ![i][side] = @ (-) SetToBag({response})]
    /\ ev' = Quiet
    /\ UNCHANGED <<ctl, reqNet, clock, goals, stops, retries, yielded, confirmed, asked,
                 answers, rejected, aside>>

Goal ==
    \E i \in Agents : \E goal \in GoalsOf[i], late \in Brakings(i) :
        GoalRequest(i, goal, late)

OperatorStop ==
    \E i \in Agents : \E late \in Brakings(i) : EmergencyStopSignal(i, late)

Request ==
    \E i \in Agents, side \in Sides :
        \E request \in BagToSet(reqNet[i][side]), late \in Brakings(i),
           pick \in DOMAIN ctl[i].PendingRequests \cup {NoId} :
            RequestDelivery(i, side, request, pick, late)

Response ==
    \E i \in Agents, side \in Sides :
        \E response \in BagToSet(respNet[i][side]), late \in Brakings(i) :
            ResponseDelivery(i, side, response, late)

BusyOver == \E i \in Agents : TickBusy(i)

GoalReached == \E i \in Agents : TickMoving(i)

AvoidanceDone == \E i \in Agents : TickAvoiding(i)

Retry ==
    \E i \in Agents :
        \E order \in Orders(DOMAIN ctl[i].PendingRequests), late \in Brakings(i) :
            TickRetry(i, order, late)

StopDone == \E i \in Agents : TickStopping(i)

CartMoves == \E i \in Agents : CartProgress(i)

BorderMoves == \E i \in Agents, side \in Sides : BorderProgress(i, side)

LoseRequest ==
    \E i \in Agents, side \in Sides :
        \E request \in BagToSet(reqNet[i][side]) : RequestLoss(i, side, request)

LoseResponse ==
    \E i \in Agents, side \in Sides :
        \E response \in BagToSet(respNet[i][side]) : ResponseLoss(i, side, response)

\* Two carts, goals from the scenarios, a delaying and lossy network
Next ==
    \/ Goal
    \/ Request
    \/ Response
    \/ BusyOver
    \/ GoalReached
    \/ AvoidanceDone
    \/ Retry
    \/ StopDone
    \/ CartMoves
    \/ BorderMoves
    \/ LoseRequest
    \/ LoseResponse

Spec == Init /\ [][Next]_vars

\* The same on a reliable network
NextReliable ==
    \/ Goal
    \/ Request
    \/ Response
    \/ BusyOver
    \/ GoalReached
    \/ AvoidanceDone
    \/ Retry
    \/ StopDone
    \/ CartMoves
    \/ BorderMoves

SpecReliable == Init /\ [][NextReliable]_vars

----------------------------------------------------------------------------
(* One channel of the network simulator: the sender writes to the         *)
(* intermediate channel, relayRequests (relayResponses does the same for   *)
(* responses) starts one goroutine per message, which sleeps for the       *)
(* message's delay and then writes the message to the receiver's channel.  *)

\* The sender puts its next message on the intermediate channel.
SimSend ==
    /\ sim.sent < MaxMessages
    /\ Len(sim.input) < ChannelSize
    /\ sim' = [sim EXCEPT !.sent = @ + 1, !.input = Append(@, sim.sent + 1)]
    /\ UNCHANGED <<core, web, life, calc, metrics>>

\* for request := range input: the next message gets its delay and its
\* goroutine.
SimRelay ==
    /\ sim.input # << >>
    /\ \E delay \in MinDelay..MaxDelay :
           sim' = [sim EXCEPT !.input = Tail(@),
                              !.asleep = @ \cup {[msg |-> Head(sim.input),
                                                  left |-> delay]}]
    /\ UNCHANGED <<core, web, life, calc, metrics>>

\* time.Sleep(d): one unit of time passes for every goroutine still asleep.
SimElapse ==
    /\ \E g \in sim.asleep : g.left > 0
    /\ sim' = [sim EXCEPT !.asleep =
                   {[msg |-> g.msg, left |-> IF g.left > 0 THEN g.left - 1 ELSE 0] :
                        g \in sim.asleep}]
    /\ UNCHANGED <<core, web, life, calc, metrics>>

\* A goroutine whose sleep is over runs: the message is lost, or written to
\* the receiver's channel, or dropped because that channel is full.
SimWake ==
    /\ \E g \in sim.asleep : \E lost \in BOOLEAN :
           /\ g.left = 0
           /\ sim' = [sim EXCEPT !.asleep = @ \ {g},
                                 !.output = IF lost \/ Len(@) >= ChannelSize
                                            THEN @ ELSE Append(@, g.msg)]
    /\ UNCHANGED <<core, web, life, calc, metrics>>

\* The receiver's event loop takes the next message off its channel.
SimReceive ==
    /\ sim.output # << >>
    /\ sim' = [sim EXCEPT !.output = Tail(@), !.got = Append(@, Head(sim.output))]
    /\ UNCHANGED <<core, web, life, calc, metrics>>

NextNetwork ==
    \/ SimSend
    \/ SimRelay
    \/ SimElapse
    \/ SimWake
    \/ SimReceive

SpecNetwork == Init /\ [][NextNetwork]_vars

----------------------------------------------------------------------------
(* The goroutine of startWebsocketServer that broadcasts the carts' data  *)
(* thirty times a second.  It runs beside the event loops and reads the    *)
(* fields of a controller one after the other, without a lock.             *)

\* A field of a controller read by the goroutine named.
Access(by, i, field) == [by |-> by, agent |-> i, field |-> field]

\* for _, controller := range scenarioManager.controllers
WebBegin ==
    /\ web.pc = "idle"
    /\ \E i \in Agents : web' = [web EXCEPT !.pc = "trajectory", !.agent = i,
                                            !.snap = << >>]
    /\ UNCHANGED <<core, sim, life, calc, metrics>>

\* goal = controller.CurrentTrajectory.end
WebReadTrajectory ==
    /\ web.pc = "trajectory"
    /\ web' = [web EXCEPT !.pc = "borders",
                          !.snap = <<ctl[web.agent].CurrentTrajectory.end>>,
                          !.reads = @ \cup {Access("web", web.agent, "CurrentTrajectory")}]
    /\ UNCHANGED <<core, sim, life, calc, metrics>>

\* LeftBorder: ..., RightBorder: ...
WebReadBorders ==
    /\ web.pc = "borders"
    /\ web' = [web EXCEPT !.pc = "state",
                          !.snap = @ \o <<GetCurrentPosition(ctl[web.agent].LeftBorderTrajectory),
                                          GetCurrentPosition(ctl[web.agent].RightBorderTrajectory)>>,
                          !.reads = @ \cup {Access("web", web.agent, "LeftBorderTrajectory"),
                                            Access("web", web.agent, "RightBorderTrajectory")}]
    /\ UNCHANGED <<core, sim, life, calc, metrics>>

\* State: controller.State.String()
WebReadState ==
    /\ web.pc = "state"
    /\ web' = [web EXCEPT !.pc = "idle",
                          !.snap = @ \o <<ctl[web.agent].State>>,
                          !.reads = @ \cup {Access("web", web.agent, "State")}]
    /\ UNCHANGED <<core, sim, life, calc, metrics>>

WebCollect ==
    \/ WebBegin
    \/ WebReadTrajectory
    \/ WebReadBorders
    \/ WebReadState

\* runSimpleMove and a goal across the border, with the broadcast running.
WebGoals == {7000, 12000}

GoalWeb ==
    \E goal \in WebGoals : \E late \in Brakings(1) :
        goals[1] = 0 /\ GoalIntake(1, goal, late)

NextWeb ==
    \/ GoalWeb
    \/ Request
    \/ Response
    \/ BusyOver
    \/ GoalReached
    \/ AvoidanceDone
    \/ CartMoves
    \/ BorderMoves
    \/ WebCollect

SpecWeb == Init /\ [][NextWeb]_vars

(* The event loops as goroutines, and stopAllControllers, which the        *)
(* scenario manager calls before it makes new carts.  StopController is an *)
(* unbuffered channel: a send without blocking succeeds only when the      *)
(* receiving loop is parked in its select at that moment.                  *)

\* The ticker has fired: the loop leaves the select and runs the control
\* step.
LoopTick(i) ==
    /\ life.pc[i] = "select"
    /\ life' = [life EXCEPT !.pc[i] = "ticker"]
    /\ UNCHANGED <<core, sim, web, calc, metrics>>

\* A goal, an emergency stop, a request or a response has arrived: the loop
\* leaves the select and runs its handler.
LoopEvent(i) ==
    /\ life.pc[i] = "select"
    /\ life' = [life EXCEPT !.pc[i] = "event"]
    /\ UNCHANGED <<core, sim, web, calc, metrics>>

\* The case is done; the loop is back in its select.
LoopDone(i) ==
    /\ life.pc[i] \in {"ticker", "event"}
    /\ life' = [life EXCEPT !.pc[i] = "select"]
    /\ UNCHANGED <<core, sim, web, calc, metrics>>

\* resetCartsWithCount calls stopAllControllers.
StopAllBegin ==
    /\ life.next = 0
    /\ life' = [life EXCEPT !.next = 1]
    /\ UNCHANGED <<core, sim, web, calc, metrics>>

\* One turn of the loop of stopAllControllers: the send is taken by a loop
\* parked in its select, which returns; otherwise the default case skips the
\* controller.
StopAllSignal ==
    /\ life.next \in 1..3
    /\ life' = [life EXCEPT
                  !.pc[life.next] = IF @ = "select" THEN "exited" ELSE @,
                  !.next = @ + 1]
    /\ UNCHANGED <<core, sim, web, calc, metrics>>

\* The controllers stopAllControllers has tried to stop so far.
Tried == {i \in 1..3 : i < life.next}

NextShutdown ==
    \/ \E i \in 1..3 : LoopTick(i)
    \/ \E i \in 1..3 : LoopEvent(i)
    \/ \E i \in 1..3 : LoopDone(i)
    \/ StopAllBegin
    \/ StopAllSignal

\* Every case of the select returns, and stopAllControllers, once called,
\* runs to its end.
FairShutdown ==
    /\ \A i \in 1..3 : WF_vars(LoopDone(i))
    /\ WF_vars(StopAllBegin)
    /\ WF_vars(StopAllSignal)

SpecShutdown == Init /\ [][NextShutdown]_vars /\ FairShutdown

(* The movement planner in detail.  Here time is counted in quarters of a  *)
(* second and positions in eighths of a plant unit, so that                *)
(* NewMovementPlanner(200, 100, 300) has the whole numbers below and the   *)
(* breakpoints of the trajectories planned here fall on whole times.  In a *)
(* state, p holds six times the position and v twice the velocity, so that *)
(* p + v*dt + a*dt^2/2 + j*dt^3/6 is computed without fractions; the end   *)
(* of a trajectory holds six times the position as well.                   *)

max_jerk == 25             \* 200 per s^3
max_acceleration == 50     \* 100 per s^2
max_velocity == 600        \* 300 per s

Abs(n) == IF n < 0 THEN 0 - n ELSE n

\* math.Sqrt (k = 2) and math.Cbrt (k = 3) of a number that has a whole root.
Root(k, n) == CHOOSE r \in 0..n : (IF k = 2 THEN r * r ELSE r * r * r) = n

\* What moveStateForward returns.  It also writes jerk into the state it is
\* called on: Through does that.
moveStateForward(initialState, dt, jerk) ==
    [t |-> initialState.t + dt,
     p |-> initialState.p + 3 * initialState.v * dt
             + 3 * initialState.a * dt * dt + jerk * dt * dt * dt,
     v |-> initialState.v + 2 * initialState.a * dt + jerk * dt * dt,
     a |-> initialState.a + jerk * dt,
     j |-> jerk]

\* The states a planner gets by calling moveStateForward on each state in
\* turn, steps being the <<dt, jerk>> of the calls: every state but the last
\* has had its jerk set by the call made on it.
RECURSIVE Through(_, _)
Through(initialState, steps) ==
    IF steps = << >> THEN <<initialState>>
    ELSE <<[initialState EXCEPT !.j = Head(steps)[2]]>>
         \o Through(moveStateForward(initialState, Head(steps)[1], Head(steps)[2]),
                    Tail(steps))

AtRest(point) == [t |-> 0, p |-> point, v |-> 0, a |-> 0, j |-> 0]

\* GetStationaryTrajectory, with the breakpoints.
StationaryAt(point) ==
    [end |-> point, state |-> [i \in 0..7 |-> AtRest(point)],
     tjStop1 |-> 0, taStop |-> 0, tjStop2 |-> 0, tj |-> 0, ta |-> 0, tv |-> 0,
     isStopping |-> FALSE]

TrajectoryType(s) ==
    LET jerk == max_jerk
        amax == max_acceleration
        vmax == max_velocity
        va == (amax * amax) \div jerk
        sa == (2 * amax * amax * amax) \div (jerk * jerk)
        sv == IF vmax * jerk < amax * amax
              THEN 2 * vmax * Root(2, vmax \div jerk)
              ELSE vmax * (vmax \div amax + amax \div jerk)
    IN IF (vmax <= va /\ s > sa) \/ (vmax <= va /\ s <= sa /\ s > sv)
       THEN "VelocityLimited"
       ELSE IF (vmax > va /\ s <= sa) \/ (vmax <= va /\ s <= sa /\ s <= sv)
       THEN "JerkLimited"
       ELSE IF vmax > va /\ s > sa /\ s > sv
       THEN "AccelerationLimitedWithMaxVelocity"
       ELSE "AccelerationLimitedWithoutMaxVelocity"

\* The durations tj, ta, tv of a point-to-point trajectory of length s.
Durations(s) ==
    LET jerk == max_jerk
        amax == max_acceleration
        vmax == max_velocity
        type == TrajectoryType(s)
    IN CASE type = "JerkLimited" ->
              [tj |-> Root(3, s \div (2 * jerk)), ta |-> 0, tv |-> 0]
         [] type = "VelocityLimited" ->
              [tj |-> Root(2, vmax \div jerk), ta |-> 0,
               tv |-> s \div vmax - 2 * Root(2, vmax \div jerk)]
         [] type = "AccelerationLimitedWithMaxVelocity" ->
              [tj |-> amax \div jerk,
               ta |-> vmax \div amax - amax \div jerk,
               tv |-> s \div vmax - 2 * (amax \div jerk)
                        - (vmax \div amax - amax \div jerk)]
         [] OTHER ->
              [tj |-> amax \div jerk,
               ta |-> (Root(2, (4 * s * jerk * jerk + amax * amax * amax)
                                 \div (amax * jerk * jerk))
                       - 3 * (amax \div jerk)) \div 2,
               tv |-> 0]

\* CalculatePointToPointTrajectory, with the breakpoints (start and end in
\* eighths of a plant unit).
PointToPoint(start, end) ==
    LET d == Durations(Abs(end - start))
        jerk == IF start < end THEN max_jerk ELSE 0 - max_jerk
        states == Through(AtRest(6 * start),
                          <<<<d.tj, jerk>>, <<d.ta, 0>>, <<d.tj, 0 - jerk>>,
                            <<d.tv, 0>>, <<d.tj, 0 - jerk>>, <<d.ta, 0>>,
                            <<d.tj, jerk>>, <<0, 0>>>>)
    IN [end |-> 6 * end, state |-> [i \in 0..7 |-> states[i + 1]],
        tjStop1 |-> 0, taStop |-> 0, tjStop2 |-> 0,
        tj |-> d.tj, ta |-> d.ta, tv |-> d.tv,
        isStopping |-> FALSE]

calculateStateInPhase(trajectory, phase, dt) ==
    moveStateForward(trajectory.state[phase - 1], dt,
                     trajectory.state[phase - 1].j)

calculateStateAtTime(trajectory, t) ==
    IF t <= 0 THEN trajectory.state[0]
    ELSE IF t > trajectory.state[7].t THEN trajectory.state[7]
    ELSE LET phase == CHOOSE k \in 1..7 :
                         /\ t <= trajectory.state[k].t
                         /\ \A h \in 1..(k - 1) : t > trajectory.state[h].t
         IN calculateStateInPhase(trajectory, phase,
                                  t - trajectory.state[phase - 1].t)

\* The braking durations when a stopping trajectory is stopped at time now.
StopTimesFromStopping(previousTrajectory, now) ==
    IF now <= previousTrajectory.state[1].t
    THEN [tjStop1 |-> previousTrajectory.state[1].t - now,
          taStop |-> previousTrajectory.taStop,
          tjStop2 |-> previousTrajectory.tjStop2]
    ELSE IF now <= previousTrajectory.state[2].t
    THEN [tjStop1 |-> 0,
          taStop |-> previousTrajectory.state[2].t - now,
          tjStop2 |-> previousTrajectory.tjStop2]
    ELSE IF now <= previousTrajectory.state[3].t
    THEN [tjStop1 |-> 0, taStop |-> 0,
          tjStop2 |-> previousTrajectory.state[3].t - now]
    ELSE [tjStop1 |-> 0, taStop |-> 0, tjStop2 |-> 0]

\* The same when a point-to-point trajectory is stopped.
StopTimesFromPointToPoint(previousTrajectory, now) ==
    LET tj == previousTrajectory.tj
        ta == previousTrajectory.ta
        at == [k \in 0..7 |-> previousTrajectory.state[k].t]
    IN IF now <= at[1]
       THEN [tjStop1 |-> 2 * now, taStop |-> 0, tjStop2 |-> now]
       ELSE IF now <= at[2]
       THEN [tjStop1 |-> 2 * tj, taStop |-> now - at[1], tjStop2 |-> tj]
       ELSE IF now <= at[3]
       THEN [tjStop1 |-> (at[3] - now) + tj, taStop |-> ta, tjStop2 |-> tj]
       ELSE IF now <= at[4]
       THEN [tjStop1 |-> tj, taStop |-> ta, tjStop2 |-> tj]
       ELSE IF now <= at[5]
       THEN [tjStop1 |-> at[5] - now, taStop |-> ta, tjStop2 |-> tj]
       ELSE IF now <= at[6]
       THEN [tjStop1 |-> 0, taStop |-> at[6] - now, tjStop2 |-> tj]
       ELSE IF now <= at[7]
       THEN [tjStop1 |-> 0, taStop |-> 0, tjStop2 |-> at[7] - now]
       ELSE [tjStop1 |-> 0, taStop |-> 0, tjStop2 |-> 0]

\* The stopping trajectory built from the braking durations x; the trajectory
\* returned records tjStop1 and tjStop2, and leaves taStop, tj, ta and tv
\* zero.
StopIn(previousTrajectory, now, x) ==
    LET sampled == calculateStateAtTime(previousTrajectory, now)
        jStop == IF sampled.v > 0 THEN max_jerk ELSE 0 - max_jerk
        states == Through([sampled EXCEPT !.t = 0],
                          <<<<x.tjStop1, 0 - jStop>>, <<x.taStop, 0>>,
                            <<x.tjStop2, jStop>>, <<0, 0>>>>)
    IN [end |-> states[4].p,
        state |-> [i \in 0..7 |-> IF i < 3 THEN states[i + 1] ELSE states[4]],
        tjStop1 |-> x.tjStop1, taStop |-> 0, tjStop2 |-> x.tjStop2,
        tj |-> 0, ta |-> 0, tv |-> 0,
        isStopping |-> TRUE]

calculateStoppingTrajectoryFromStoppingTrajectory(previousTrajectory, now) ==
    StopIn(previousTrajectory, now,
            StopTimesFromStopping(previousTrajectory, now))

calculateStoppingTrajectoryFromPointToPointTrajectory(previousTrajectory, now) ==
    StopIn(previousTrajectory, now,
            StopTimesFromPointToPoint(previousTrajectory, now))

\* CalculateStoppingTrajectory, with the breakpoints, called when now has
\* passed since t0 of the previous trajectory.
StoppingFrom(previousTrajectory, now) ==
    IF previousTrajectory.isStopping
    THEN calculateStoppingTrajectoryFromStoppingTrajectory(previousTrajectory, now)
    ELSE calculateStoppingTrajectoryFromPointToPointTrajectory(previousTrajectory, now)

\* Where the carts of the two-cart scenarios stand, and ends at the distances
\* 0, 50, 150 and 1200 plant units: zero, jerk-limited, acceleration-limited
\* without and with the maximum velocity.
PlanStarts == {3200, 9600}
PlanDistances == {0, 400, 1200, 9600}
MaxStopsPlanned == 2       \* stops planned one from the other

\* CalculatePointToPointTrajectory is called for a start and an end.
CalcPlan ==
    /\ calc.kind = "none"
    /\ \E start \in PlanStarts : \E s \in PlanDistances : \E dir \in {-1, 1} :
         /\ start + dir * s >= 0
         /\ calc' = [kind |-> "trajectory",
                     trajectory |-> PointToPoint(start, start + dir * s),
                     stops |-> 0, at |-> -1, out |-> AtRest(0)]
    /\ UNCHANGED <<core, sim, web, life, metrics>>

\* The trajectory is evaluated when time t has passed since its t0.
CalcEvaluate ==
    /\ calc.kind = "trajectory"
    /\ \E t \in 0..(calc.trajectory.state[7].t + 1) :
         calc' = [calc EXCEPT !.at = t,
                              !.out = calculateStateAtTime(calc.trajectory, t)]
    /\ UNCHANGED <<core, sim, web, life, metrics>>

\* CalculateStoppingTrajectory is called on the trajectory when time now has
\* passed since its t0, and its result replaces the trajectory.
CalcStop ==
    /\ calc.kind = "trajectory"
    /\ calc.stops < MaxStopsPlanned
    /\ \E now \in 1..(calc.trajectory.state[7].t + 1) :
         calc' = [calc EXCEPT !.trajectory = StoppingFrom(calc.trajectory, now),
                              !.stops = @ + 1,
                              !.at = -1]
    /\ UNCHANGED <<core, sim, web, life, metrics>>

NextPlanner ==
    \/ CalcPlan
    \/ CalcEvaluate
    \/ CalcStop

SpecPlanner == Init /\ [][NextPlanner]_vars

(* The PID controllers.  SampleTime is counted in hundredths of a second,  *)
(* Integral in error times hundredths of a second and Output in hundredths *)
(* of its unit, so that the sample time 0.01 is the whole number 1.        *)

NewPID(kp, ki, kd, sampleTime, maxOutput) ==
    [Kp |-> kp, Ki |-> ki, Kd |-> kd, PreviousError |-> 0, Integral |-> 0,
     Setpoint |-> 0, Output |-> 0, SampleTime |-> sampleTime,
     MaxOutput |-> maxOutput]

Update(pid, input) ==
    LET err == pid.Setpoint - input
        integral == pid.Integral + err * pid.SampleTime
        derivative == ((err - pid.PreviousError) * 100) \div pid.SampleTime
        output == 100 * pid.Kp * err + pid.Ki * integral
                    + 100 * pid.Kd * derivative
    IN [pid EXCEPT !.Integral = integral,
                   !.Output = IF output > 100 * pid.MaxOutput
                              THEN 100 * pid.MaxOutput
                              ELSE IF output < 0 - 100 * pid.MaxOutput
                              THEN 0 - 100 * pid.MaxOutput
                              ELSE output,
                   !.PreviousError = err]

SetSetpoint(pid, setpoint) == [pid EXCEPT !.Setpoint = setpoint]

MaxUpdates == 3            \* calls of Update on one PID
Setpoints == {0, 1, 3}     \* setpoints given to the PID
Inputs == {0, 2}           \* measurements given to the PID

\* NewController makes the velocity PID and the position PID.
PidNew ==
    /\ calc.kind = "none"
    /\ \E pid \in {NewPID(150, 10, 0, 1, 150), NewPID(100, 0, 0, 1, 300)} :
         calc' = [kind |-> "pid", pid |-> pid, last |-> "new", updates |-> 0]
    /\ UNCHANGED <<core, sim, web, life, metrics>>

\* runPIDControllers sets the setpoint ...
PidSetSetpoint ==
    /\ calc.kind = "pid"
    /\ \E setpoint \in Setpoints :
         calc' = [calc EXCEPT !.pid = SetSetpoint(calc.pid, setpoint),
                              !.last = "set"]
    /\ UNCHANGED <<core, sim, web, life, metrics>>

\* ... and updates the PID with the measurement.
PidUpdate ==
    /\ calc.kind = "pid"
    /\ calc.updates < MaxUpdates
    /\ \E input \in Inputs :
         calc' = [calc EXCEPT !.pid = Update(calc.pid, input),
                              !.last = "update",
                              !.updates = @ + 1]
    /\ UNCHANGED <<core, sim, web, life, metrics>>

NextPid ==
    \/ PidNew
    \/ PidSetSetpoint
    \/ PidUpdate

SpecPid == Init /\ [][NextPid]_vars

\* runPostponedRequest: both carts are sent to 1200, where Cart2 stands; the
\* other goals make the border Cart1 asks for end exactly the safety margin
\* from where Cart2 is going (1100, or 1260.6 to make way for 1200).
PostponedGoals == <<{10397, 12000, 12003}, {11000, 12000}>>

GoalPostponed ==
    \E i \in Agents : \E goal \in PostponedGoals[i], late \in Brakings(i) :
        GoalRequest(i, goal, late)

NextPostponed ==
    \/ GoalPostponed
    \/ Request
    \/ Response
    \/ BusyOver
    \/ GoalReached
    \/ AvoidanceDone
    \/ Retry
    \/ StopDone
    \/ CartMoves
    \/ BorderMoves

SpecPostponed == Init /\ [][NextPostponed]_vars

\* The same with an operator who may press the emergency stop; the goals are
\* the ones inside the borders and across them.
StopGoals == <<{7000, 11000}, {5000, 11000}>>

GoalStop ==
    \E i \in Agents : \E goal \in StopGoals[i], late \in Brakings(i) :
        GoalRequest(i, goal, late)

NextStop ==
    \/ GoalStop
    \/ Request
    \/ Response
    \/ BusyOver
    \/ GoalReached
    \/ AvoidanceDone
    \/ Retry
    \/ StopDone
    \/ CartMoves
    \/ BorderMoves
    \/ LoseRequest
    \/ LoseResponse
    \/ OperatorStop

SpecStop == Init /\ [][NextStop]_vars

\* runCrossedGoals: Cart1 is sent to 1100 and Cart2 to 500, each once, on a
\* reliable network; the retry scan runs as often as it finds something due.
CrossedGoals == <<11000, 5000>>

GoalCrossed ==
    \E i \in Agents : \E late \in Brakings(i) :
        goals[i] = 0 /\ GoalRequest(i, CrossedGoals[i], late)

RetryAgain(i) ==
    \E order \in Orders(DOMAIN ctl[i].PendingRequests), late \in Brakings(i) :
        RetryScan(i, order, late) /\ UNCHANGED retries

RetryDue == \E i \in Agents : RetryAgain(i)

NextCrossed ==
    \/ GoalCrossed
    \/ Request
    \/ Response
    \/ BusyOver
    \/ GoalReached
    \/ AvoidanceDone
    \/ RetryDue
    \/ StopDone
    \/ CartMoves
    \/ BorderMoves

\* What the ticker case of run_controller does for agent i: one of these
\* at most is enabled, according to the state.
Tick(i) ==
    \/ TickBusy(i)
    \/ TickMoving(i)
    \/ TickAvoiding(i)
    \/ TickStopping(i)
    \/ RetryAgain(i)

Receive(i) ==
    \E side \in Sides : \E request \in BagToSet(reqNet[i][side]) :
        \E late \in Brakings(i),
           pick \in DOMAIN ctl[i].PendingRequests \cup {NoId} :
            RequestDelivery(i, side, request, pick, late)

Answer(i) ==
    \E side \in Sides : \E response \in BagToSet(respNet[i][side]) :
        \E late \in Brakings(i) : ResponseDelivery(i, side, response, late)

BordersArrive(i) == \E side \in Sides : BorderProgress(i, side)

\* The ticker fires every 10 ms, the select of run_controller serves every
\* channel that stays ready, the planner's trajectories end, and the
\* reliable network delivers every message.
FairCrossed ==
    \A i \in 1..2 :
        /\ WF_vars(Tick(i))
        /\ WF_vars(Receive(i))
        /\ WF_vars(Answer(i))
        /\ WF_vars(CartProgress(i))
        /\ WF_vars(BordersArrive(i))

SpecCrossed == Init /\ [][NextCrossed]_vars /\ FairCrossed

----------------------------------------------------------------------------
(* Safety of the border segments *)

Pairs == {i \in Agents : i + 1 \in Agents}

\* C1: for neighbouring agents A (left) and B (right), the end of A's right
\* border trajectory is never greater than the end of B's left border
\* trajectory: the two segments never overlap, whatever the network does.
C1_NoBorderOverlap ==
    \A i \in Pairs :
        ctl[i].RightBorderTrajectory.end <= ctl[i + 1].LeftBorderTrajectory.end

\* The cart where it is now, between the borders where they are now.
WithinBordersNow(c) ==
    /\ GetCurrentPosition(c.LeftBorderTrajectory) + safetyMargin
           <= GetCurrentPosition(c.CurrentTrajectory)
    /\ GetCurrentPosition(c.CurrentTrajectory)
           <= GetCurrentPosition(c.RightBorderTrajectory) - safetyMargin

\* The place the cart is commanded to, between the places the borders are
\* commanded to.
WithinBordersFinally(c) ==
    /\ c.LeftBorderTrajectory.end + safetyMargin <= c.CurrentTrajectory.end
    /\ c.CurrentTrajectory.end <= c.RightBorderTrajectory.end - safetyMargin

NothingBetween(i) ==
    /\ reqNet[i]["Right"] = EmptyBag /\ reqNet[i + 1]["Left"] = EmptyBag
    /\ respNet[i]["Right"] = EmptyBag /\ respNet[i + 1]["Left"] = EmptyBag
    /\ ctl[i].PendingRequests = EmptyMap
    /\ ctl[i + 1].PendingRequests = EmptyMap
    /\ ctl[i].PendingEmergencyStopConfirmation = NoConf
    /\ ctl[i + 1].PendingEmergencyStopConfirmation = NoConf

\* C3: whenever no border-move request or response between A and its right
\* neighbour B is in flight or pending, the end of A's right border
\* trajectory equals the end of B's left border trajectory.
C3_BordersAgree ==
    \A i \in Pairs :
        NothingBetween(i) =>
            ctl[i].RightBorderTrajectory.end = ctl[i + 1].LeftBorderTrajectory.end

----------------------------------------------------------------------------
(* Goal intake and the service of border-move requests *)

\* The messages the handler that has just run sent.
Sent(e, kind, type) ==
    {k \in 1..Len(e.out) : e.out[k].kind = kind /\ e.out[k].msg.Type = type}

\* C4: a goal G received in Idle or Requesting is accepted at once
\* (trajectory to G, state Moving, no message to any neighbour) if and only
\* if L + m < G < R - m for the border ends L and R; a goal equal to L + m or
\* to R - m is out of bounds and makes the agent send a border-move request
\* to the neighbour on that side.
C4_GoalIntake ==
    [][(ev'.op = "goal" /\ ev'.was \in {"Idle", "Requesting"}) =>
          LET i == ev'.agent
              G == ev'.goal
              L == ctl[i].LeftBorderTrajectory.end
              R == ctl[i].RightBorderTrajectory.end
              accepted == /\ ctl'[i].State = "Moving"
                          /\ ctl'[i].CurrentTrajectory.end = G
                          /\ ev'.out = << >>
              asks(side) == /\ ctl'[i].State = "Requesting"
                            /\ Len(ev'.out) = 1
                            /\ ev'.out[1].kind = "req"
                            /\ ev'.out[1].side = side
                            /\ ev'.out[1].msg.Type = "BORDER_MOVE"
          IN  /\ accepted <=> (L + safetyMargin < G /\ G < R - safetyMargin)
              /\ (G = L + safetyMargin /\ i - 1 \in Agents) => asks("Left")
              /\ (G = R - safetyMargin /\ i + 1 \in Agents) => asks("Right")]_vars

\* C4 witness: a goal exactly on the margin of the right border has been
\* taken in and a border-move request has gone to the right neighbour.
C4_Witness ==
    /\ ev.op = "goal" /\ ev.was = "Idle"
    /\ ev.goal = ctl[ev.agent].RightBorderTrajectory.end - safetyMargin
    /\ Sent(ev, "req", "BORDER_MOVE") # {}

C6_LargerIdWins ==
    [][(ev'.op = "request" /\ ev'.req.Type = "BORDER_MOVE" /\ ev'.conflict) =>
          LET i == ev'.agent
              id == ev'.req.RequestId
              ours == ConflictingPending(ctl[i], ev'.side)
          IN  /\ IF ConflictsWithMotion(ctl[i], ev'.req, ev'.side)
                 THEN ev'.defer <=> id > ctl[i].GoalTimestamp
                 ELSE /\ ev'.defer => \E p \in ours : id > p
                      /\ ~ev'.defer => \E p \in ours : ~(id > p)
              /\ ~ev'.defer => ctl'[i] = ctl[i]]_vars

\* C6 witness: a request has won the tie against the receiver's own pending
\* request.
C6_Witness ==
    /\ ev.op = "request" /\ ev.conflict /\ ev.defer /\ ~ev.motion

\* Crossed goals: the request that has just been handled came to an agent
\* that stood still in Requesting, waiting for the answer to its own
\* border-move request toward the side the request came from.
Crossed(i, e) ==
    /\ e.op = "request" /\ e.agent = i /\ e.req.Type = "BORDER_MOVE"
    /\ ctl[i].State = "Requesting"
    /\ IsFinished(ctl[i].CurrentTrajectory)
    /\ \A p \in DOMAIN ctl[i].PendingRequests :
           ctl[i].PendingRequests[p].Request.Type = "BORDER_MOVE"
    /\ ConflictingPending(ctl[i], e.side) # {}

C9_LoserIsToldToWait ==
    (ev.op = "request" /\ ev.req.Type = "BORDER_MOVE" /\ ev.conflict /\ ~ev.defer) =>
        /\ Sent(ev, "resp", "WAIT") # {}
        /\ Sent(ev, "resp", "REJECT") = {}

----------------------------------------------------------------------------
(* Yielding to a request that wins against the receiver's motion *)

\* The receiver can serve the request from where it stands: the proposed
\* border end is clear of its trajectory, or the place it would give way to
\* lies within its borders.
CanServe(c, request, side) ==
    IF side = "Left"
    THEN \/ request.ProposedBorderEnd < c.CurrentTrajectory.end - safetyMargin
         \/ /\ c.LeftBorderTrajectory.end + safetyMargin
                   < request.ProposedBorderEnd + Overshoot
            /\ request.ProposedBorderEnd + Overshoot
                   < c.RightBorderTrajectory.end - safetyMargin
    ELSE \/ request.ProposedBorderEnd > c.CurrentTrajectory.end + safetyMargin
         \/ /\ c.LeftBorderTrajectory.end + safetyMargin
                   < request.ProposedBorderEnd - Overshoot
            /\ request.ProposedBorderEnd - Overshoot
                   < c.RightBorderTrajectory.end - safetyMargin

\* C10: a border-move request that conflicts with the receiver, wins the
\* tie-break and finds the receiver Moving or Avoiding makes the receiver
\* initiate an emergency stop and answer Wait, its borders unchanged; when a
\* retry of that request arrives after the receiver has stopped and returned
\* to Idle, with no pending request of its own in the way, the answer is not
\* Wait: the request is accepted, at once or by giving way.
C10_StopThenServe ==
    [][\A i \in Agents :
          (ev'.op = "request" /\ ev'.agent = i /\ ev'.req.Type = "BORDER_MOVE") =>
              /\ (ev'.conflict /\ ev'.defer
                      /\ ctl[i].State \in {"Moving", "Avoiding"}) =>
                     /\ ev'.stopAsked
                     /\ ctl'[i].State \in {"Stopping", "Requesting"}
                     /\ Sent(ev', "resp", "WAIT") # {}
                     /\ \A k \in Sent(ev', "resp", "WAIT") :
                            /\ ev'.out[k].side = ev'.side
                            /\ ev'.out[k].msg.RequestId = ev'.req.RequestId
                     /\ Sent(ev', "resp", "ACCEPT") = {}
                     /\ Sent(ev', "resp", "REJECT") = {}
                     /\ ctl'[i].LeftBorderTrajectory = ctl[i].LeftBorderTrajectory
                     /\ ctl'[i].RightBorderTrajectory = ctl[i].RightBorderTrajectory
              /\ (ev'.req.RequestId \in yielded /\ ctl[i].State = "Idle"
                      /\ ConflictingPending(ctl[i], ev'.side) = {}) =>
                     /\ Sent(ev', "resp", "WAIT") = {}
                     /\ CanServe(ctl[i], ev'.req, ev'.side) =>
                            /\ Sent(ev', "resp", "ACCEPT") # {}
                            /\ Border(ctl'[i], ev'.side).end
                                   = ev'.req.ProposedBorderEnd]_vars

\* C10 witness: the retry of a request that the receiver had stopped for
\* has arrived at the receiver, back in Idle, and has been accepted.
C10_Witness ==
    /\ ev.op = "request" /\ ev.was = "Idle"
    /\ ev.req.RequestId \in yielded
    /\ Sent(ev, "resp", "ACCEPT") # {}

----------------------------------------------------------------------------
(* Crossed goals end *)

\* C8: with crossed goals on a reliable network neither agent stays in
\* Requesting for ever: whenever an agent is in Requesting it later is not.
C8_BothLeaveRequesting ==
    \A i \in 1..2 : (ctl[i].State = "Requesting") ~> (ctl[i].State # "Requesting")


\* C8 witness: both crossed goals were given, both agents were in Requesting,
\* and the matching response that has just been handled took the second of
\* them out of Requesting, the first having left it before.
C8_Witness ==
    /\ \A i \in 1..2 : goals[i] = 1
    /\ ev.op = "response" /\ ev.matched /\ ev.was = "Requesting"
    /\ \A i \in 1..2 : ctl[i].State # "Requesting"
    /\ ctl[ev.agent].State = "Moving"


----------------------------------------------------------------------------
(* Plans changed under way: each cart is sent a goal inside its borders    *)
(* and then, before it has come to rest there, a goal across the border.   *)
(* No message is lost and a pending request is retried whenever its time   *)
(* is past.                                                                *)

PlansOf == <<<<7000, 11000>>, <<11000, 5000>>>>

GoalPlanned ==
    \E i \in Agents : \E late \in Brakings(i) :
        /\ goals[i] < Len(PlansOf[i])
        /\ goals[i] > 0 => ctl[i].State \in {"Moving", "Avoiding", "Stopping"}
        /\ GoalIntake(i, PlansOf[i][goals[i] + 1], late)

NextPlans ==
    \/ GoalPlanned
    \/ Request
    \/ Response
    \/ BusyOver
    \/ GoalReached
    \/ AvoidanceDone
    \/ RetryDue
    \/ StopDone
    \/ CartMoves
    \/ BorderMoves

SpecPlans == Init /\ [][NextPlans]_vars /\ FairCrossed

----------------------------------------------------------------------------
(* A chain of three carts: runChainedRequests sends Cart1 to 1300, deep in *)
(* the territory of Cart3, and runTooFar sends it to 1800, beyond the end  *)
(* of the track.  No message is lost.                                      *)

InitChain == Start(ThreeCarts)

ChainGoals == {13000, 18000}

GoalChain ==
    \E goal \in ChainGoals : \E late \in Brakings(1) :
        goals[1] = 0 /\ GoalIntake(1, goal, late)

\* No cart is under way when the goal arrives, so none has to stop.
NextChain ==
    \/ GoalChain
    \/ Request
    \/ Response
    \/ BusyOver
    \/ GoalReached
    \/ AvoidanceDone
    \/ RetryDue
    \/ CartMoves
    \/ BorderMoves

FairChain ==
    \A i \in 1..3 :
        /\ WF_vars(Tick(i))
        /\ WF_vars(Receive(i))
        /\ WF_vars(Answer(i))
        /\ WF_vars(CartProgress(i))
        /\ WF_vars(BordersArrive(i))

SpecChain == InitChain /\ [][NextChain]_vars /\ FairChain

\* runTooFar: Cart1 is sent to 1800, beyond the end of the track at 1575; 1600
\* is beyond it as well.
TooFarGoals == {16000, 18000}

GoalTooFar ==
    \E goal \in TooFarGoals : \E late \in Brakings(1) :
        goals[1] = 0 /\ GoalIntake(1, goal, late)

NextTooFar ==
    \/ GoalTooFar
    \/ Request
    \/ Response
    \/ RetryDue

SpecTooFar == InitChain /\ [][NextTooFar]_vars /\ FairChain

\* The same chain with the goal changed under way, as runChangeGoalMidMovement
\* changes it: Cart1 is sent to 400 and, while it moves, to 1300 or to 1800.
RelayPlan == <<{4000}, ChainGoals>>

GoalRelay ==
    /\ goals[1] < Len(RelayPlan)
    /\ goals[1] > 0 => ctl[1].State = "Moving"
    /\ \E goal \in RelayPlan[goals[1] + 1] : \E late \in Brakings(1) :
           GoalIntake(1, goal, late)

NextRelay ==
    \/ GoalRelay
    \/ Request
    \/ Response
    \/ BusyOver
    \/ GoalReached
    \/ AvoidanceDone
    \/ RetryDue
    \/ StopDone
    \/ CartMoves
    \/ BorderMoves

SpecRelay == InitChain /\ [][NextRelay]_vars /\ FairChain

----------------------------------------------------------------------------
(* runUnreliableNetwork: the chain of three carts, Cart1 sent to 1300, on  *)
(* a network that drops messages.  A message that is sent again and again  *)
(* is not dropped every time: only finitely many messages are lost.        *)

GoalUnreliable ==
    \E late \in Brakings(1) : goals[1] = 0 /\ GoalIntake(1, 13000, late)

NextUnreliable ==
    \/ GoalUnreliable
    \/ Request
    \/ Response
    \/ BusyOver
    \/ GoalReached
    \/ AvoidanceDone
    \/ RetryDue
    \/ CartMoves
    \/ BorderMoves
    \/ LoseRequest
    \/ LoseResponse

FairUnreliable ==
    \A i \in 1..3 :
        /\ WF_vars(Tick(i))
        /\ SF_vars(Receive(i))
        /\ SF_vars(Answer(i))
        /\ WF_vars(CartProgress(i))
        /\ WF_vars(BordersArrive(i))

SpecUnreliable == InitChain /\ [][NextUnreliable]_vars /\ FairUnreliable

----------------------------------------------------------------------------
(* runSimpleReject sends a cart to 2000, beyond the end of the track.  Here *)
(* any cart of the chain of three may be sent there, once: the last cart    *)
(* meets the hard wall with the operator's goal, the others make it meet    *)
(* the wall with its avoidance goal.                                        *)

WallGoal == 20000

GoalWall ==
    \E i \in Agents : \E late \in Brakings(i) :
        goals[i] = 0 /\ GoalIntake(i, WallGoal, late)

NextWall ==
    \/ GoalWall
    \/ Request
    \/ Response
    \/ RetryDue

SpecWall == InitChain /\ [][NextWall]_vars

----------------------------------------------------------------------------
(* Emergency-stop handshake *)

\* The emergency-stop requests of controller c that no response has
\* answered yet.
StopPending(c) ==
    {id \in DOMAIN c.PendingRequests :
         c.PendingRequests[id].Request.Type = "EMERGENCY_STOP"}

\* C11: an agent that has sent EmergencyStop requests and waits for their
\* confirmation enters Stopping only after the neighbour has entered
\* Stopping and sent it a StopConfirm.
C11_StopsOnlyWhenConfirmed ==
    [][\A i \in Agents :
          (/\ StopPending(ctl[i]) # {}
           /\ ctl[i].State # "Stopping"
           /\ ctl'[i].State = "Stopping")
          => \E r \in confirmed : r.to = i]_vars

\* C12: on a reliable network every EmergencyStop request an agent has
\* read is eventually answered by that agent with a StopConfirm carrying
\* the id of the request: time and again none is left unanswered.
C12_StopAnswered ==
    []<>(\A a \in asked :
            \E r \in confirmed : r.id = a.id /\ r.to \in {a.by - 1, a.by + 1})

\* C12, as a property of states: an EmergencyStop request that has been
\* read and not yet answered is still owed its StopConfirm, that is, the
\* agent that read it still holds its id in PendingEmergencyStopConfirmation
\* (the only id executeEmergencyStop confirms) or a copy of it is still on
\* its way to that agent.
C12_StopStaysOwed ==
    \A a \in asked :
        \/ \E r \in confirmed : r.id = a.id /\ r.to \in {a.by - 1, a.by + 1}
        \/ /\ ctl[a.by].PendingEmergencyStopConfirmation # NoConf
           /\ ctl[a.by].PendingEmergencyStopConfirmation.RequestId = a.id
        \/ \E side \in Sides : \E request \in BagToSet(reqNet[a.by][side]) :
               request.Type = "EMERGENCY_STOP" /\ request.RequestId = a.id

\* C12, second half: a StopConfirm is sent only by an agent that is in
\* Stopping when the step that sends it ends.
C12_ConfirmOnlyWhenStopping ==
    [][\A k \in DOMAIN ev'.out :
          (ev'.out[k].kind = "resp" /\ ev'.out[k].msg.Type = "STOP_CONFIRM")
          => ctl'[ev'.agent].State = "Stopping"]_vars

----------------------------------------------------------------------------
(* The goal kept for after the stop *)

\* C13: a goal stored as pendingGoalAfterStop is not lost: a step leaves it
\* stored unless it is the agent's reading a newer goal or the ticker's
\* finding the stop finished, which processes the stored goal through goal
\* intake and ends in Moving or Requesting.
C13_PendingGoalKept ==
    [][\A i \in Agents :
          ctl[i].pendingGoalAfterStop # NoGoal
          => \/ ctl'[i].pendingGoalAfterStop = ctl[i].pendingGoalAfterStop
             \/ ev'.agent = i /\ ev'.op = "goal"
             \/ /\ ev'.agent = i
                /\ ev'.op = "stopped"
                /\ ev'.goal = ctl[i].pendingGoalAfterStop
                /\ ctl'[i].State \in {"Moving", "Requesting"}]_vars

----------------------------------------------------------------------------
(* Retransmission *)

\* C14: every request the retry scan sends is the retransmission of a
\* request that was pending when the scan began, with the same id and the
\* same type.
C14_RetryKeepsId ==
    [][ev'.op = "retry" =>
          \A k \in DOMAIN ev'.out :
              ev'.out[k].kind = "req" =>
                  LET request == ev'.out[k].msg
                      pending == ctl[ev'.agent].PendingRequests
                  IN  /\ request.RequestId \in DOMAIN pending
                      /\ pending[request.RequestId].Request.Type = request.Type]_vars

----------------------------------------------------------------------------
(* Replayed requests *)

\* C15: a request read again after it was answered, with the same id and
\* the same content, is given the same answer: no agent has answered one
\* request from one neighbour both with Accept and with Reject.
C15_SameAnswer ==
    \A a, b \in answers :
        (a.by = b.by /\ a.side = b.side /\ a.req = b.req) => a.type = b.type

----------------------------------------------------------------------------
(* Lossy channels *)

\* C16: when only finitely many messages are lost, the negotiation of
\* runUnreliableNetwork completes as it does on a reliable network: every
\* request the retry scan sends again has the id it was pending under, and
\* the requester leaves Requesting and moves toward its goal.
C16_CompletesDespiteLoss ==
    /\ (ctl[1].State = "Requesting") ~>
           (ctl[1].State = "Moving" /\ ctl[1].CurrentTrajectory.end = 13000)
    /\ [][ev'.op = "retry" =>
             \A k \in DOMAIN ev'.out :
                 ev'.out[k].kind = "req" =>
                     ev'.out[k].msg.RequestId
                         \in DOMAIN ctl[ev'.agent].PendingRequests]_vars

\* The requester and the middle cart both wait in Requesting and nothing is
\* in flight: the forwarded request or its answer has been lost, and only a
\* retry can complete the negotiation.
C16_Witness ==
    /\ ctl[1].State = "Requesting"
    /\ ctl[2].State = "Requesting"
    /\ \A i \in Agents : \A side \in Sides :
           reqNet[i][side] = EmptyBag /\ respNet[i][side] = EmptyBag

----------------------------------------------------------------------------
(* Chained requests *)

\* The goal a receiver has to reach to give way to a request from side.
AvoidanceGoal(request, side) ==
    IF side = "Left" THEN request.ProposedBorderEnd + Overshoot
    ELSE request.ProposedBorderEnd - Overshoot

\* Agent i, free to give way, can do so for the request only by moving its
\* border on the other side.
GivesWayAcross(i, request, side) ==
    LET c == ctl[i]
        goal == AvoidanceGoal(request, side)
    IN  /\ c.State \in {"Idle", "Requesting"}
        /\ \A id \in DOMAIN c.PendingRequests :
               c.PendingRequests[id].Request.Type = "BORDER_MOVE"
        /\ ConflictingPending(c, side) = {}
        /\ IF side = "Left"
           THEN /\ request.ProposedBorderEnd >= c.CurrentTrajectory.end - safetyMargin
                /\ c.LeftBorderTrajectory.end + safetyMargin < goal
                /\ c.RightBorderTrajectory.end - safetyMargin <= goal
           ELSE /\ request.ProposedBorderEnd <= c.CurrentTrajectory.end + safetyMargin
                /\ c.LeftBorderTrajectory.end + safetyMargin >= goal

\* The same, and there is a neighbour on that side.
MustMoveOwnBorder(i, request, side) ==
    /\ GivesWayAcross(i, request, side)
    /\ Neighbor(i, Opposite(side)) \in Agents

\* C17: an agent that must move its own border to give way sends a
\* border-move request to the opposite neighbour and answers nothing yet;
\* the response it later reads for that forwarded request, Accept, Reject
\* or Wait, it passes on to the original requester with the same type and
\* the id of the original request.
C17_ForwardsAndRelays ==
    [][/\ (/\ ev'.op = "request"
           /\ ev'.req.Type = "BORDER_MOVE"
           /\ MustMoveOwnBorder(ev'.agent, ev'.req, ev'.side))
          => /\ \E k \in DOMAIN ev'.out :
                    /\ ev'.out[k].kind = "req"
                    /\ ev'.out[k].side = Opposite(ev'.side)
                    /\ ev'.out[k].msg.Type = "BORDER_MOVE"
             /\ \A k \in DOMAIN ev'.out : ev'.out[k].kind # "resp"
             /\ \E id \in DOMAIN ctl'[ev'.agent].PendingRequests :
                    LET orig == ctl'[ev'.agent].PendingRequests[id].Orig
                    IN  /\ orig # NoOrig
                        /\ orig.Request = ev'.req
                        /\ orig.side = ev'.side
       /\ (/\ ev'.op = "response"
           /\ ev'.matched
           /\ ev'.resp.Type \in {"ACCEPT", "REJECT", "WAIT"}
           /\ ctl[ev'.agent].PendingRequests[ev'.resp.RequestId].Orig # NoOrig)
          => LET orig == ctl[ev'.agent].PendingRequests[ev'.resp.RequestId].Orig
                 relayed == {k \in DOMAIN ev'.out : ev'.out[k].kind = "resp"}
             IN  /\ relayed # {}
                 /\ \A k \in relayed :
                        /\ ev'.out[k].side = orig.side
                        /\ ev'.out[k].msg = [RequestId |-> orig.Request.RequestId,
                                             Type |-> ev'.resp.Type]]_vars

\* The middle cart has read a Wait for the request it forwarded and has
\* passed a Wait on.
C17_Witness ==
    /\ ev.agent = 2
    /\ ev.op = "response"
    /\ ev.matched
    /\ ev.resp.Type = "WAIT"
    /\ Sent(ev, "resp", "WAIT") # {}

----------------------------------------------------------------------------
(* The hard wall *)

\* Goal G of agent i needs a border moved on a side where i has no
\* neighbour (queueBorderMoveRequest looks at the left border first).
NeedsWall(i, G) ==
    LET c == ctl[i]
    IN  \/ /\ c.LeftBorderTrajectory.end + safetyMargin >= G
           /\ Neighbor(i, "Left") \notin Agents
        \/ /\ c.LeftBorderTrajectory.end + safetyMargin < G
           /\ c.RightBorderTrajectory.end - safetyMargin <= G
           /\ Neighbor(i, "Right") \notin Agents

\* The last step took in a goal of its agent that meets the hard wall:
\* the operator's goal, or the avoidance goal for a request.
MeetsWall(e) ==
    \/ /\ e.op = "goal"
       /\ ctl[e.agent].State \in {"Idle", "Requesting"}
       /\ NeedsWall(e.agent, e.goal)
    \/ /\ e.op = "request"
       /\ e.req.Type = "BORDER_MOVE"
       /\ GivesWayAcross(e.agent, e.req, e.side)
       /\ Neighbor(e.agent, Opposite(e.side)) \notin Agents

Untouched(i) ==
    /\ ctl[i].LeftBorderTrajectory = ThreeCarts[i].LeftBorderTrajectory
    /\ ctl[i].RightBorderTrajectory = ThreeCarts[i].RightBorderTrajectory
    /\ ctl[i].CurrentTrajectory = ThreeCarts[i].CurrentTrajectory

\* The originator has just read the Reject of its request and given up.
RejectedAtOriginator ==
    /\ ev.agent = 1
    /\ ev.op = "response"
    /\ ev.resp.Type = "REJECT"
    /\ ev.matched
    /\ ev.rep = 1
    /\ ctl[1].State = "Idle"
    /\ DOMAIN ctl[1].PendingRequests = {}

\* C19: in the chain of three carts on a reliable network, Cart1 sent beyond
\* the end of the track has its goal rejected in the end: the request goes
\* from neighbour to neighbour (Cart2 asks Cart3 only when it reads the
\* request of Cart1), the last cart rejects it when it reads it, the Reject
\* comes back hop by hop (Cart2 sends Reject to Cart1 only when it reads the
\* Reject of Cart3), every cart ends in Idle for good, and no border
\* trajectory and no cart has moved.
C19_TooFarRejected ==
    /\ [][goals[1] = 0 /\ goals'[1] = 1 => ctl'[1].State = "Requesting"]_vars
    /\ (ctl[1].State = "Requesting") ~> RejectedAtOriginator
    /\ (goals[1] = 1) ~> [](\A i \in 1..3 : ctl[i].State = "Idle")
    /\ [](\A i \in 1..3 : Untouched(i))
    /\ [][/\ (ev'.agent = 1 /\ Sent(ev', "req", "BORDER_MOVE") # {}) =>
                 /\ ev'.op \in {"goal", "retry"}
                 /\ \A k \in Sent(ev', "req", "BORDER_MOVE") :
                        ev'.out[k].side = "Right"
          /\ (ev'.agent = 2 /\ Sent(ev', "req", "BORDER_MOVE") # {}) =>
                 /\ ev'.op = "request"
                 /\ ev'.side = "Left"
                 /\ \A k \in Sent(ev', "req", "BORDER_MOVE") :
                        /\ ev'.out[k].side = "Right"
                        /\ ev'.out[k].msg.RequestId = ev'.req.RequestId
          /\ ~(ev'.agent = 3 /\ Sent(ev', "req", "BORDER_MOVE") # {})
          /\ (ev'.agent = 3 /\ ev'.op = "request") =>
                 /\ Sent(ev', "resp", "REJECT") # {}
                 /\ \A k \in 1..Len(ev'.out) :
                        /\ ev'.out[k].kind = "resp"
                        /\ ev'.out[k].side = "Left"
                        /\ ev'.out[k].msg.Type = "REJECT"
                        /\ ev'.out[k].msg.RequestId = ev'.req.RequestId
          /\ (ev'.agent = 2 /\ Sent(ev', "resp", "REJECT") # {}) =>
                 /\ ev'.op = "response"
                 /\ ev'.side = "Right"
                 /\ ev'.resp.Type = "REJECT"
                 /\ \A k \in Sent(ev', "resp", "REJECT") :
                        ev'.out[k].side = "Left"
          /\ \A t \in {"ACCEPT", "WAIT", "STOP_CONFIRM"} :
                 Sent(ev', "resp", t) = {}
          /\ ~(ev'.agent = 1 /\ Sent(ev', "resp", "REJECT") # {})]_vars

\* The Reject has come back to Cart1 and every cart is idle with nothing
\* pending and nothing in flight.
C19_Witness ==
    /\ RejectedAtOriginator
    /\ \A i \in 1..3 :
          /\ ctl[i].State = "Idle"
          /\ DOMAIN ctl[i].PendingRequests = {}
          /\ Untouched(i)
          /\ \A s \in Sides : reqNet[i][s] = EmptyBag /\ respNet[i][s] = EmptyBag

(* A Reject read twice *)

\* The step reads a Reject.
ReadsReject == ev'.op = "response" /\ ev'.resp.Type = "REJECT"

\* The step reads a Reject of a request of which the same agent has acted on
\* a Reject before.
ReadsRejectAgain(r) ==
    /\ ReadsReject
    /\ r.by = ev'.agent
    /\ r.id = ev'.resp.RequestId

\* The step changes nothing in the agent and emits nothing.
Ignored ==
    /\ ctl' = ctl
    /\ ev'.out = << >>
    /\ ev'.rep = 0
    /\ ~ev'.matched

\* The first Reject: the pending entry is removed, the agent goes to Idle and
\* signals the goal's completion once.
ActedOnce ==
    /\ ev'.resp.RequestId \notin DOMAIN ctl'[ev'.agent].PendingRequests
    /\ ctl'[ev'.agent].State = "Idle"
    /\ ev'.rep = 1
    /\ [by |-> ev'.agent, id |-> ev'.resp.RequestId] \in
           {[by |-> r.by, id |-> r.id] : r \in rejected'}

\* C20 as stated: a Reject delivered twice for the same request causes one
\* state change; the second delivery changes nothing and emits nothing.
C20_SecondRejectIgnored ==
    [][/\ (ReadsReject /\ ev'.matched) => ActedOnce
       /\ \A r \in rejected : ReadsRejectAgain(r) => Ignored]_vars

\* C20, amended: the first Reject of a request causes one state change; a
\* second Reject of a request of the agent's own changes nothing and emits
\* nothing, and so does a second Reject of a request the agent forwarded for
\* a neighbour unless the agent has forwarded that request again since (its
\* id is pending again), in which case the Reject is acted on as a first one.
C20_SecondRejectIgnoredUnlessSentAgain ==
    [][/\ (ReadsReject /\ ev'.matched) => ActedOnce
       /\ \A r \in rejected :
             ReadsRejectAgain(r) =>
                 IF r.own \/ r.id \notin DOMAIN ctl[r.by].PendingRequests
                 THEN Ignored
                 ELSE ev'.matched => ActedOnce]_vars

\* Cart1 has acted on the Reject of its own request and has just read a
\* second Reject of it, which it ignored.
C20_Witness ==
    /\ ev.agent = 1
    /\ ev.op = "response"
    /\ ev.resp.Type = "REJECT"
    /\ ~ev.matched
    /\ ev.out = << >>
    /\ [by |-> 1, id |-> ev.resp.RequestId, own |-> TRUE] \in rejected
    /\ ctl[1].State = "Idle"

(* Responses that answer nothing *)

\* The response the step reads answers no pending request of the agent, or
\* the agent is not waiting for answers.
Stale ==
    /\ ev'.op = "response"
    /\ \/ ctl[ev'.agent].State # "Requesting"
       \/ ev'.resp.RequestId \notin DOMAIN ctl[ev'.agent].PendingRequests

\* C21: a response whose request id is not pending, and any response read
\* while the agent is not in Requesting, is dropped: the agent's state,
\* borders, current trajectory, pending requests and everything else it holds
\* are as before, and no message and no completion signal is emitted.
C21_StaleResponseDropped ==
    [][Stale => /\ ctl' = ctl
                /\ reqNet' = reqNet
                /\ \A j \in Agents : \A s \in Sides :
                       j # ev'.agent => respNet'[j][s] = respNet[j][s]
                /\ ev'.out = << >>
                /\ ev'.rep = 0]_vars

\* An agent that is under way has just read and dropped a response to a
\* request that is still pending.
C21_Witness ==
    /\ ev.op = "response"
    /\ ev.was \in {"Moving", "Avoiding", "Stopping", "Busy", "Idle"}
    /\ ev.resp.RequestId \in DOMAIN ctl[ev.agent].PendingRequests
    /\ ctl[ev.agent].State = ev.was
    /\ ev.out = << >>
    /\ ~ev.matched

(* Requests that find the receiver occupied *)

\* The proposed border end leaves the receiver's cart, where its trajectory
\* ends, more than the safety margin.
LeavesRoom(c, request, side) ==
    IF side = "Left"
    THEN request.ProposedBorderEnd < c.CurrentTrajectory.end - safetyMargin
    ELSE request.ProposedBorderEnd > c.CurrentTrajectory.end + safetyMargin

\* The step reads a border-move request that conflicts with nothing of the
\* receiver's, cannot be accepted at once, and finds the receiver in a state
\* in which it cannot give way.
FindsOccupied ==
    /\ ev'.op = "request"
    /\ ev'.req.Type = "BORDER_MOVE"
    /\ ctl[ev'.agent].State \in {"Moving", "Avoiding", "Busy", "Stopping"}
    /\ ConflictingPending(ctl[ev'.agent], ev'.side) = {}
    /\ ~ConflictsWithMotion(ctl[ev'.agent], ev'.req, ev'.side)
    /\ ~LeavesRoom(ctl[ev'.agent], ev'.req, ev'.side)

\* C22: a border-move request without conflict that cannot be accepted at
\* once and arrives while the receiver is Moving, Avoiding, Busy or Stopping
\* is answered Wait, and the receiver's state, borders, trajectory and
\* pending requests (all it holds) stay as they were.
C22_OccupiedAnswersWait ==
    [][FindsOccupied =>
          /\ ctl' = ctl
          /\ Len(ev'.out) = 1
          /\ ev'.out[1] = [kind |-> "resp", side |-> ev'.side,
                           msg |-> [RequestId |-> ev'.req.RequestId,
                                    Type |-> "WAIT"]]
          /\ ev'.rep = 0]_vars

\* A cart dwelling at its goal has just been asked for room it cannot give
\* and has answered Wait.
C22_Witness ==
    /\ ev.op = "request"
    /\ ev.req.Type = "BORDER_MOVE"
    /\ ev.was = "Busy"
    /\ ~ev.conflict
    /\ ~LeavesRoom(ctl[ev.agent], ev.req, ev.side)
    /\ ctl[ev.agent].State = "Busy"
    /\ Sent(ev, "resp", "WAIT") # {}

(* The emergency stop of a cart that is stopping *)

\* C23: an emergency-stop signal handled while the agent is in Stopping
\* changes nothing: the state stays Stopping, the position the stop ends at
\* and the borders are as before, the pending requests are unchanged and no
\* message is sent.
C23_StopWhileStopping ==
    [][(ev'.op = "stop" /\ ctl[ev'.agent].State = "Stopping") =>
          LET before == ctl[ev'.agent]
              after == ctl'[ev'.agent]
          IN  /\ after.State = "Stopping"
              /\ after.CurrentTrajectory.end = before.CurrentTrajectory.end
              /\ after.LeftBorderTrajectory = before.LeftBorderTrajectory
              /\ after.RightBorderTrajectory = before.RightBorderTrajectory
              /\ after.PendingRequests = before.PendingRequests
              /\ ev'.out = << >>]_vars

(* The order of delivery *)

\* C24: the messages sent on one channel through the network simulator reach
\* the receiver in the order in which they were sent: of any two messages the
\* receiver has taken, the one sent earlier was taken earlier.
C24_DeliveredInOrder ==
    \A a, b \in DOMAIN sim.got : a < b => sim.got[a] < sim.got[b]

(* Who touches a controller *)

\* C25: the mutable state of an agent (state, border trajectories, current
\* trajectory, pending requests, goal timestamp) is read and written only by
\* the agent's own event loop: no other goroutine has accessed a field of it.
C25_OnlyOwnLoop ==
    \A r \in web.reads : r.by = "loop"

(* Shutdown *)

\* C26: once stopAllControllers has run, the event loop of every controller
\* it tried to stop terminates in the end, whatever the controller was doing
\* when it was signalled.
C26_StopShutsDown ==
    (life.next = 4) ~> (\A i \in Tried : life.pc[i] = "exited")

(* Evaluation of a trajectory *)

\* C27: a trajectory evaluated at its t0 gives the position, velocity and
\* acceleration of its first breakpoint, and evaluated at or after its last
\* breakpoint gives its end position with velocity and acceleration zero.
C27_EvaluatedAtTheEnds ==
    (calc.kind = "trajectory" /\ calc.at >= 0) =>
        /\ calc.at = 0 =>
             /\ calc.out.p = calc.trajectory.state[0].p
             /\ calc.out.v = calc.trajectory.state[0].v
             /\ calc.out.a = calc.trajectory.state[0].a
        /\ calc.at >= calc.trajectory.state[7].t =>
             /\ calc.out.p = calc.trajectory.end
             /\ calc.out.v = 0
             /\ calc.out.a = 0

(* The setpoint of a PID *)

\* C28: a PID whose setpoint has just been set has the integral zero and the
\* previous error zero: nothing accumulated before the change is left.
C28_SetpointResets ==
    (calc.kind = "pid" /\ calc.last = "set") =>
        /\ calc.pid.Integral = 0
        /\ calc.pid.PreviousError = 0

(* What becomes of a goal *)

\* The agent still has the goal g before it: it is moving to it, asking a
\* neighbour for room for it, or keeping it for after the stop.
Kept(c, g) ==
    \/ c.State = "Moving" /\ c.CurrentTrajectory.end = g
    \/ c.pendingGoalAfterStop = g
    \/ \E id \in DOMAIN c.PendingRequests : c.PendingRequests[id].Goal = g

\* C29: every goal an agent takes from its goal channel is resolved in the
\* end with a completion signal (reached and the dwell over, rejected, or
\* abandoned after a stop).  For that, the step that takes the goal has to
\* leave the goal with the agent or to give the completion signal itself.
C29_GoalKeptOrSignalled ==
    [][\A i \in Agents :
          goals'[i] = goals[i] + 1 => Kept(ctl'[i], ev'.goal) \/ ev'.rep > 0]_vars

(* The goal of a cart under way *)

\* C30: whenever an agent is in Moving or Avoiding, the end G of its current
\* trajectory lies strictly more than the safety margin inside the ends L and
\* R of its own border trajectories: L + m < G < R - m.
C30_GoalInsideBorders ==
    \A i \in Agents :
        ctl[i].State \in {"Moving", "Avoiding"} =>
            /\ ctl[i].LeftBorderTrajectory.end + safetyMargin
                   < ctl[i].CurrentTrajectory.end
            /\ ctl[i].CurrentTrajectory.end
                   < ctl[i].RightBorderTrajectory.end - safetyMargin

\* C30 witness: an Accept has just been processed; the agent is under way to
\* the goal it asked room for, and the border it asked to move ends the
\* overshoot 1.01 * m beyond that goal.
C30_Witness ==
    \E i \in Agents :
        /\ ev.agent = i /\ ev.op = "response"
        /\ ev.resp.Type = "ACCEPT" /\ ev.matched
        /\ ctl[i].State \in {"Moving", "Avoiding"}
        /\ \/ ctl[i].RightBorderTrajectory.end
                  = ctl[i].CurrentTrajectory.end + Overshoot
           \/ ctl[i].LeftBorderTrajectory.end
                  = ctl[i].CurrentTrajectory.end - Overshoot

----------------------------------------------------------------------------
(* Requesting and what the agent waits for *)

\* C31: whenever an agent is in Requesting, its map of pending requests
\* holds at least one request, so that a response or the retry scan can
\* take the agent out of Requesting.
C31_RequestingHasPending ==
    \A i \in Agents :
        ctl[i].State = "Requesting" => DOMAIN ctl[i].PendingRequests # {}

----------------------------------------------------------------------------
(* Requests made for a neighbour *)

\* The requests of the last step that repeat a pending entry agent a held
\* for a neighbour: same id, and the entry names an original request.
Resent(a, out, c) ==
    {k \in DOMAIN out :
        /\ out[k].kind = "req"
        /\ out[k].msg.Type = "BORDER_MOVE"
        /\ out[k].msg.RequestId \in DOMAIN c.PendingRequests
        /\ c.PendingRequests[out[k].msg.RequestId].Orig # NoOrig}

\* C32: a pending request made to serve a neighbour's request is never sent
\* again by the agent's own retry scan; it is sent again only in the step
\* that reads the requester's request once more, from the side it came
\* from, and then under the same id.
C32_ForwardedNotRetried ==
    [][\A k \in Resent(ev'.agent, ev'.out, ctl[ev'.agent]) :
          /\ ev'.op = "request"
          /\ ev'.req.Type = "BORDER_MOVE"
          /\ ev'.req.RequestId = ev'.out[k].msg.RequestId
          /\ ev'.side = ctl[ev'.agent].PendingRequests[ev'.req.RequestId].Orig.side
          /\ ev'.out[k].msg.RequestId \in DOMAIN ctl'[ev'.agent].PendingRequests]_vars

\* C32 witness: the middle cart, in Requesting for the sake of its
\* neighbour's request, has just read that request again and has sent its
\* own request again under the same id.
C32_Witness ==
    /\ ev.op = "request" /\ ev.agent = 2 /\ ev.was = "Requesting"
    /\ ev.req.Type = "BORDER_MOVE"
    /\ \E k \in DOMAIN ev.out :
           /\ ev.out[k].kind = "req"
           /\ ev.out[k].msg.RequestId = ev.req.RequestId
    /\ ev.req.RequestId \in DOMAIN ctl[2].PendingRequests
    /\ ctl[2].PendingRequests[ev.req.RequestId].Orig # NoOrig

----------------------------------------------------------------------------
(* The state an emergency stop leaves behind *)

\* C33: right after an agent has executed an emergency stop, directly or on
\* a StopConfirm, it is in Stopping, its current trajectory is the stopping
\* trajectory planned from the one it had, and no border-move entry is left
\* in its map of pending requests.
C33_StopLeavesNoBorderMove ==
    [][ev'.stopped =>
          /\ ctl'[ev'.agent].State = "Stopping"
          /\ \E late \in BOOLEAN :
                 ctl'[ev'.agent].CurrentTrajectory =
                     CalculateStoppingTrajectory(ctl[ev'.agent].CurrentTrajectory,
                                                 late)
          /\ \A id \in DOMAIN ctl'[ev'.agent].PendingRequests :
                 ctl'[ev'.agent].PendingRequests[id].Request.Type
                     # "BORDER_MOVE"]_vars

\* C33 witness: an agent has just stopped on a StopConfirm, and its cart is
\* braking.
C33_Witness ==
    /\ ev.stopped /\ ev.op = "response" /\ ev.resp.Type = "STOP_CONFIRM"
    /\ ctl[ev.agent].State = "Stopping"
    /\ ctl[ev.agent].CurrentTrajectory.isStopping

----------------------------------------------------------------------------
(* A goal at the place where the cart stands.  Each cart of the chain of   *)
(* three is sent, once and while Idle, to the position it rests at; the    *)
(* ticker of run_controller does the rest.                                 *)

RestGoal(i) == GetCurrentPosition(ctl[i].CurrentTrajectory)

GoalRest ==
    \E i \in Agents : \E late \in Brakings(i) :
        /\ goals[i] = 0
        /\ ctl[i].State = "Idle"
        /\ IsFinished(ctl[i].CurrentTrajectory)
        /\ GoalIntake(i, RestGoal(i), late)

NextRest ==
    \/ GoalRest
    \/ GoalReached
    \/ BusyOver

FairRest == \A i \in 1..3 : WF_vars(TickMoving(i)) /\ WF_vars(TickBusy(i))

SpecRest == InitChain /\ [][NextRest]_vars /\ FairRest

\* How far agent i has come in the cycle Idle, Moving, Busy, Idle.
Stage(c, n) ==
    IF n = 0 THEN 0
    ELSE CASE c.State = "Moving" -> 1
           [] c.State = "Busy" -> 2
           [] c.State = "Idle" -> 3
           [] OTHER -> 4

----------------------------------------------------------------------------
(* Goals during the dwell *)

\* The step reads a goal while agent i is in Busy and leaves the agent as
\* it is: state, trajectories, borders and pending requests, nothing sent.
BusyGoalIgnored(i) ==
    (goals'[i] = goals[i] + 1 /\ ctl[i].State = "Busy") =>
        /\ ctl'[i] = ctl[i]
        /\ ev'.out = << >>
        /\ ev'.rep = 0

----------------------------------------------------------------------------
(* Waiting for a StopConfirm *)

\* Agent c has sent an EmergencyStop request and waits for its StopConfirm.
AwaitsStopConfirm(c) ==
    /\ c.State = "Requesting"
    /\ \E id \in DOMAIN c.PendingRequests :
           c.PendingRequests[id].Request.Type = "EMERGENCY_STOP"

\* C36: an agent that has sent EmergencyStop requests and has not yet got a
\* StopConfirm starts no new motion: no step takes it to Moving or to
\* Avoiding, and its current trajectory stays the one it has (or runs to its
\* end), whatever goal, border-move request or response the step reads.
C36_NoMotionBeforeConfirm ==
    [][\A i \in Agents :
          AwaitsStopConfirm(ctl[i]) =>
              /\ ctl'[i].State \notin {"Moving", "Avoiding"}
              /\ \/ ctl'[i].CurrentTrajectory = ctl[i].CurrentTrajectory
                 \/ ctl'[i].CurrentTrajectory = Arrived(ctl[i].CurrentTrajectory)
                 \/ ev'.stopped]_vars

----------------------------------------------------------------------------
(* After a stop *)

\* The step brings agent i none of the triggers of an emergency stop: no
\* operator stop, no goal and no request from a neighbour.
NoTrigger(i) == ~(ev'.agent = i /\ ev'.op \in {"stop", "goal", "request"})

\* C37: an agent whose stop has just completed and that is Idle does not
\* enter Stopping again and sends no further EmergencyStop request unless a
\* new trigger arrives.
C37_OneStopPerTrigger ==
    [][\A i \in Agents :
          (/\ ctl[i].State = "Idle"
           /\ ev.op = "stopped" /\ ev.agent = i
           /\ NoTrigger(i)) =>
              /\ ctl'[i].State # "Stopping"
              /\ ~(ev'.agent = i /\ ev'.stopAsked)]_vars

----------------------------------------------------------------------------
(* Crossed goals sent more than once: the goals of runCrossedGoals, each   *)
(* cart's goal possibly repeated while the cart is still asking for room,   *)
(* on a reliable network.                                                   *)

MaxCrossedGoals == 3   \* goals sent in one behaviour

GoalRepeated ==
    \E i \in Agents : \E late \in Brakings(i) :
        GoalsSent < MaxCrossedGoals /\ GoalIntake(i, CrossedGoals[i], late)

NextRepeated ==
    \/ GoalRepeated
    \/ Request
    \/ Response

SpecRepeated == Init /\ [][NextRepeated]_vars

\* What agent i does with the request when the iteration over its map of
\* pending requests comes across the conflicting entry pick first: the
\* messages it sends and the controller it is left with.
Outcome(i, request, side, pick, late) ==
    LET y == handleIncomingBorderMoveRequest(Ctx(i, late), request, side, pick)
    IN  [out |-> y.out, c |-> y.c]

\* C38: the response to an incoming border-move request is determined by
\* the agent's state and the request: whichever of several conflicting
\* pending requests the iteration over the map meets first, the agent sends
\* the same messages and is left in the same state.
C38_ResponseIndependentOfOrder ==
    \A i \in Agents, side \in Sides :
        \A request \in BagToSet(reqNet[i][side]) :
            request.Type = "BORDER_MOVE" =>
                \A p, q \in ConflictingPending(ctl[i], side), late \in Brakings(i) :
                    Outcome(i, request, side, p, late)
                        = Outcome(i, request, side, q, late)

----------------------------------------------------------------------------
(* The id along a chain of requests *)

\* C39: a border-move request sent in order to give way to an incoming
\* request carries the id of that request, and the pending entry made for
\* it is kept under that id together with the request it serves: every hop
\* of a chain uses one id, and an agent holds one entry for the chain.
C39_OneIdPerChain ==
    /\ (ev.op = "request" /\ ev.req.Type = "BORDER_MOVE") =>
           \A k \in DOMAIN ev.out :
               (ev.out[k].kind = "req" /\ ev.out[k].msg.Type = "BORDER_MOVE") =>
                   ev.out[k].msg.RequestId = ev.req.RequestId
    /\ \A i \in Agents : \A id \in DOMAIN ctl[i].PendingRequests :
           ctl[i].PendingRequests[id].Orig # NoOrig =>
               /\ ctl[i].PendingRequests[id].Request.RequestId = id
               /\ ctl[i].PendingRequests[id].Orig.Request.RequestId = id

\* C39 witness: the middle cart has just passed on the request of the first
\* cart, and both hold their entry under the id of that request.
C39_Witness ==
    /\ ev.op = "request" /\ ev.agent = 2 /\ ev.req.Type = "BORDER_MOVE"
    /\ \E k \in DOMAIN ev.out :
           /\ ev.out[k].kind = "req"
           /\ ev.out[k].msg.Type = "BORDER_MOVE"
           /\ ev.out[k].msg.RequestId = ev.req.RequestId
    /\ ev.req.RequestId \in DOMAIN ctl[1].PendingRequests
    /\ ev.req.RequestId \in DOMAIN ctl[2].PendingRequests
    /\ ctl[2].PendingRequests[ev.req.RequestId].Orig # NoOrig
    /\ ctl[1].PendingRequests[ev.req.RequestId].Orig = NoOrig

----------------------------------------------------------------------------
(* The metrics of one controller and their lock, a sync.RWMutex.  The      *)
(* controller's loop writes (RecordMessageSent, RecordResponseSent,        *)
(* RecordMessageReceived take the write lock), the broadcasting goroutine  *)
(* reads (collectCartData calls GetDetailedMetrics).  As in Go's RWMutex,  *)
(* a Lock that waits for the readers to leave keeps new RLocks out.        *)

MaxCounted == 2    \* messages counted in one behaviour
MaxReports == 2    \* calls of GetDetailedMetrics in one behaviour

RequestIds == {1, 2}

\* m.mu.RLock(): granted unless a writer holds the lock or waits for it.
RLock(pc) ==
    /\ metrics.writer = "none"
    /\ metrics' = [metrics EXCEPT !.readers = @ + 1, !.reader = pc]

\* m.mu.RUnlock(), deferred to the return of the function.
RUnlock(pc) ==
    metrics' = [metrics EXCEPT !.readers = @ - 1, !.reader = pc,
                               !.reports = IF pc = "idle" THEN @ + 1 ELSE @]

GetDetailedMetrics ==
    /\ metrics.reader = "idle"
    /\ metrics.reports < MaxReports
    /\ RLock("GetDetailedMetrics")
    /\ UNCHANGED <<core, sim, web, life, calc>>

GetAverageRoundTripTime ==
    /\ metrics.reader = "GetDetailedMetrics"
    /\ RLock("GetAverageRoundTripTime")
    /\ UNCHANGED <<core, sim, web, life, calc>>

GetAverageGoalToMovementDelay ==
    /\ metrics.reader = "AverageRoundTripTime"
    /\ RLock("GetAverageGoalToMovementDelay")
    /\ UNCHANGED <<core, sim, web, life, calc>>

\* The return of the function the reader is in.
ReaderReturns ==
    /\ CASE metrics.reader = "GetAverageRoundTripTime" ->
                RUnlock("AverageRoundTripTime")
         [] metrics.reader = "GetAverageGoalToMovementDelay" ->
                RUnlock("AverageGoalToMovementTime")
         [] metrics.reader = "AverageGoalToMovementTime" ->
                RUnlock("idle")
         [] OTHER -> FALSE
    /\ UNCHANGED <<core, sim, web, life, calc>>

\* m.mu.Lock() of a writer: it announces itself and then waits until the
\* readers that hold the lock have left.
Lock(call, requestId) ==
    /\ metrics.call = "none"
    /\ metrics.writer = "none"
    /\ metrics' = [metrics EXCEPT !.writer = "waiting", !.call = call,
                                  !.requestId = requestId]
    /\ UNCHANGED <<core, sim, web, life, calc>>

LockGranted ==
    /\ metrics.writer = "waiting"
    /\ metrics.readers = 0
    /\ metrics' = [metrics EXCEPT !.writer = "held"]
    /\ UNCHANGED <<core, sim, web, life, calc>>

RecordMessageSent(requestId) ==
    /\ metrics.scenarioMessageCount < MaxCounted
    /\ Lock("RecordMessageSent", requestId)

RecordResponseSent ==
    /\ metrics.scenarioMessageCount < MaxCounted
    /\ Lock("RecordResponseSent", 0)

RecordMessageReceived(requestId) == Lock("RecordMessageReceived", requestId)

\* The body of the writer's function and its deferred m.mu.Unlock().
WriterReturns ==
    /\ metrics.writer = "held"
    /\ metrics' =
         [metrics EXCEPT
            !.writer = "none", !.call = "none", !.requestId = 0,
            !.pendingMessages =
                CASE metrics.call = "RecordMessageSent" ->
                         @ \cup {metrics.requestId}
                  [] metrics.call = "RecordMessageReceived" ->
                         @ \ {metrics.requestId}
                  [] OTHER -> @,
            !.scenarioMessageCount =
                IF metrics.call \in {"RecordMessageSent", "RecordResponseSent"}
                THEN @ + 1 ELSE @,
            !.messageCount =
                IF /\ metrics.call = "RecordMessageReceived"
                   /\ metrics.requestId \in metrics.pendingMessages
                THEN @ + 1 ELSE @]
    /\ UNCHANGED <<core, sim, web, life, calc>>

Reader ==
    \/ GetDetailedMetrics
    \/ GetAverageRoundTripTime
    \/ GetAverageGoalToMovementDelay
    \/ ReaderReturns

Writer ==
    \/ \E requestId \in RequestIds : RecordMessageSent(requestId)
    \/ RecordResponseSent
    \/ \E requestId \in RequestIds : RecordMessageReceived(requestId)
    \/ LockGranted
    \/ WriterReturns

NextMetrics == Reader \/ Writer

\* Both goroutines are scheduled: a goroutine that can run does run.
FairMetrics == WF_vars(Reader) /\ WF_vars(Writer)

SpecMetrics == Init /\ [][NextMetrics]_vars /\ FairMetrics

\* C40: GetDetailedMetrics always returns, whatever the writers do at the
\* same time: a reader that is in the call gets out of it.
C40_DetailedMetricsReturns ==
    (metrics.reader # "idle") ~> (metrics.reader = "idle")

============================================================================
